---- MODULE Spec2Model ----
(***************************************************************************)
(* Model of the BugHerd project-worker MCP server: the cursor codec, the   *)
(* text chunker, the deterministic sorter, the column identity cache and   *)
(* the list and move tools.                                                *)
(*                                                                         *)
(* Strings that the code inspects character by character (cursors, JSON    *)
(* text, descriptions) are sequences of character codes (ASCII), so that   *)
(* encoding and decoding are computed, not assumed.                        *)
(***************************************************************************)
EXTENDS Integers, Sequences, FiniteSets, TLC

VARIABLES
    emitted,      \* cursor codec: the cursor the server last put in a response
    passed,       \* cursor codec: the cursor argument of the last tool call
    decoded,      \* cursor codec: what the decoder did with `passed`
    description,  \* text chunker: task.description on the remote side
    maxChars,     \* text chunker: env.descriptionMaxChars
    chunkCall,    \* text chunker: the last task_description_more call
    received,     \* text chunker: chunks the client collected since offset 0
    tasks,        \* sorter: the list handed to sortTasks
    sortMode,     \* sorter: parsed.sort
    sorted,       \* sorter: results of the calls made on `tasks`
    remoteColumns,        \* column cache: column list the remote side holds now
    columnCache,          \* column cache: projectId -> (column id -> name)
    columnNameToIdCache,  \* column cache: projectId -> (lower name -> column id)
    invocation,           \* column cache: the getColumnMappings calls
    lastOutcome,          \* column cache: how the call that ended last ended
    pageSize,             \* tools: env.pageSize
    activeColumnIds,      \* tools: env.activeColumnIds, <<>> when not set
    lastCall,             \* tools: the tool call answered last
    relisted,             \* tools: the last tasks_list request in another sort mode
    handler,              \* invocations: the CallTool handler run in progress
    remote,               \* invocations: the collection the remote side holds
    traversal,            \* invocations: what a client following cursors has seen
    http                  \* HTTP mode: the session table and its connections

cursorVars == <<emitted, passed, decoded>>
chunkVars  == <<description, maxChars, chunkCall, received>>
sortVars   == <<tasks, sortMode, sorted>>
columnVars == <<remoteColumns, columnCache, columnNameToIdCache, invocation,
                lastOutcome>>
toolVars   == <<pageSize, activeColumnIds, lastCall, relisted>>
serverVars == <<handler, remote, traversal, http>>
vars == <<emitted, passed, decoded, description, maxChars, chunkCall, received,
          tasks, sortMode, sorted,
          remoteColumns, columnCache, columnNameToIdCache, invocation,
          lastOutcome, pageSize, activeColumnIds, lastCall, relisted,
          handler, remote, traversal, http>>

(***************************************************************************)
(* Bounds of the model.                                                    *)
(***************************************************************************)
MaxPage == 11
MaxOffset == 11


Returned(v) == [threw |-> FALSE, value |-> v]
Thrown(m)   == [threw |-> TRUE, value |-> m]

(***************************************************************************)
(* Cursor codec                                                            *)
(***************************************************************************)

\* Decimal digits of a natural number, as character codes.
RECURSIVE Digits(_)
Digits(n) == IF n < 10 THEN <<48 + n>> ELSE Digits(n \div 10) \o <<48 + (n % 10)>>

\* JSON.stringify of an integer.
NumberToJSON(n) == IF n < 0 THEN <<45>> \o Digits(-n) ELSE Digits(n)

KeyPage   == <<112, 97, 103, 101>>             \* page
KeyOffset == <<111, 102, 102, 115, 101, 116>>  \* offset

\* JSON.stringify(value) for the one-field objects the codec is given:
\* {"<key>":<n>}
JSONStringify(value) ==
    LET key == IF "page" \in DOMAIN value THEN KeyPage ELSE KeyOffset
        n   == IF "page" \in DOMAIN value THEN value.page ELSE value.offset
    IN  <<123, 34>> \o key \o <<34, 58>> \o NumberToJSON(n) \o <<125>>

\* The base64url alphabet: A-Z a-z 0-9 - _
Base64UrlChar(v) ==
    IF v < 26 THEN 65 + v
    ELSE IF v < 52 THEN 97 + (v - 26)
    ELSE IF v < 62 THEN 48 + (v - 52)
    ELSE IF v = 62 THEN 45 ELSE 95

\* Buffer.from(bytes).toString("base64url"): three bytes to four characters,
\* no padding.
RECURSIVE Base64UrlEncode(_)
Base64UrlEncode(b) ==
    IF Len(b) = 0 THEN <<>>
    ELSE IF Len(b) = 1 THEN
        <<Base64UrlChar(b[1] \div 4), Base64UrlChar((b[1] % 4) * 16)>>
    ELSE IF Len(b) = 2 THEN
        <<Base64UrlChar(b[1] \div 4),
          Base64UrlChar((b[1] % 4) * 16 + (b[2] \div 16)),
          Base64UrlChar((b[2] % 16) * 4)>>
    ELSE
        <<Base64UrlChar(b[1] \div 4),
          Base64UrlChar((b[1] % 4) * 16 + (b[2] \div 16)),
          Base64UrlChar((b[2] % 16) * 4 + (b[3] \div 64)),
          Base64UrlChar(b[3] % 64)>> \o Base64UrlEncode(SubSeq(b, 4, Len(b)))

\* Value of a character in the base64 alphabets Node accepts (both the
\* standard and the URL-safe one); 64 for any other character.
Base64Value(c) ==
    IF c \in 65..90 THEN c - 65
    ELSE IF c \in 97..122 THEN c - 97 + 26
    ELSE IF c \in 48..57 THEN c - 48 + 52
    ELSE IF c = 45 \/ c = 43 THEN 62
    ELSE IF c = 95 \/ c = 47 THEN 63
    ELSE 64

\* Mutant of Base64Bytes: an incomplete last group of characters is dropped.
RECURSIVE Base64BytesWholeGroups(_)
Base64BytesWholeGroups(v) ==
    IF Len(v) < 4 THEN <<>>
    ELSE <<v[1] * 4 + (v[2] \div 16),
           (v[2] % 16) * 16 + (v[3] \div 4),
           (v[3] % 4) * 64 + v[4]>> \o Base64BytesWholeGroups(SubSeq(v, 5, Len(v)))

RECURSIVE Base64Bytes(_)
Base64Bytes(v) ==
    IF Len(v) < 2 THEN <<>>
    ELSE IF Len(v) = 2 THEN <<v[1] * 4 + (v[2] \div 16)>>
    ELSE IF Len(v) = 3 THEN
        <<v[1] * 4 + (v[2] \div 16), (v[2] % 16) * 16 + (v[3] \div 4)>>
    ELSE
        <<v[1] * 4 + (v[2] \div 16),
          (v[2] % 16) * 16 + (v[3] \div 4),
          (v[3] % 4) * 64 + v[4]>> \o Base64Bytes(SubSeq(v, 5, Len(v)))

\* Buffer.from(s, "base64url"): never throws; characters outside the
\* alphabet carry no data.
Base64UrlDecode(s) ==
    LET valid == SelectSeq(s, LAMBDA c : Base64Value(c) < 64)
    IN  Base64Bytes([i \in 1..Len(valid) |-> Base64Value(valid[i])])

IsDigit(c) == c \in 48..57

\* Index of the first character at or after i that is not a digit.
RECURSIVE SkipDigits(_, _)
SkipDigits(s, i) ==
    IF i <= Len(s) /\ IsDigit(s[i]) THEN SkipDigits(s, i + 1) ELSE i

\* Decimal value of the digits s[i], ..., s[j-1].
RECURSIVE DigitsValue(_, _, _)
DigitsValue(s, i, j) ==
    IF i >= j THEN 0 ELSE DigitsValue(s, i, j - 1) * 10 + (s[j - 1] - 48)

\* A JSON number starting at s[i]: -? int (. digits)?  with no leading
\* zeros.  Its digits start at a, its integer part ends before b and the
\* number ends before c.  The value is kept as [isInt, n]: n is the value
\* when isInt, and its integer part otherwise.
JSONNumberValue(s, i, a, b, c) ==
    [ok    |-> /\ b > a
               /\ (s[a] = 48 => b = a + 1)
               /\ (c > b => c > b + 1),
     next  |-> c,
     value |-> [isInt |-> DigitsValue(s, b + 1, c) = 0,
                n     |-> IF a > i THEN -DigitsValue(s, a, b)
                          ELSE DigitsValue(s, a, b)]]

JSONNumberFraction(s, i, a, b) ==
    JSONNumberValue(s, i, a, b,
        IF b <= Len(s) /\ s[b] = 46 THEN SkipDigits(s, b + 1) ELSE b)

JSONNumberDigits(s, i, a) == JSONNumberFraction(s, i, a, SkipDigits(s, a))

JSONNumber(s, i) ==
    JSONNumberDigits(s, i, IF i <= Len(s) /\ s[i] = 45 THEN i + 1 ELSE i)

\* Index of the quote closing the key that starts at s[i]; 0 when there is
\* none (or the key holds an escape).
RECURSIVE KeyEnd(_, _)
KeyEnd(s, i) ==
    IF i > Len(s) \/ s[i] = 92 THEN 0
    ELSE IF s[i] = 34 THEN i
    ELSE KeyEnd(s, i + 1)

\* The members "key":number (, "key":number)* } starting at s[i].
RECURSIVE JSONMembers(_, _, _)

\* After a member key : number, either } ends the text or , starts the
\* next member.
JSONMemberEnd(s, num, members) ==
    IF ~num.ok \/ num.next > Len(s) THEN Thrown("SyntaxError")
    ELSE IF s[num.next] = 125 THEN
        IF num.next = Len(s) THEN Returned(members) ELSE Thrown("SyntaxError")
    ELSE IF s[num.next] = 44 THEN JSONMembers(s, num.next + 1, members)
    ELSE Thrown("SyntaxError")

JSONMemberValue(s, key, num, acc) ==
    JSONMemberEnd(s, num, Append(acc, [key |-> key, value |-> num.value]))

\* The key opened at s[i] closes at s[e].
JSONMemberKey(s, i, e, acc) ==
    IF e = 0 \/ e + 1 > Len(s) \/ s[e + 1] # 58 THEN Thrown("SyntaxError")
    ELSE JSONMemberValue(s, SubSeq(s, i + 1, e - 1), JSONNumber(s, e + 2), acc)

JSONMembers(s, i, acc) ==
    IF i > Len(s) \/ s[i] # 34 THEN Thrown("SyntaxError")
    ELSE JSONMemberKey(s, i, KeyEnd(s, i + 1), acc)

\* JSON.parse, for texts without white space: an object whose members are
\* numbers parses to the sequence of its members.  Every other text throws
\* here; where JSON.parse would return a value of another shape (a number,
\* a string, an array, null, a nested object), the object schema applied
\* next throws instead, and both throws are caught by the same handler.
JSONParse(s) ==
    IF Len(s) < 2 \/ s[1] # 123 THEN Thrown("SyntaxError")
    ELSE IF s[2] = 125 THEN
        IF Len(s) = 2 THEN Returned(<<>>) ELSE Thrown("SyntaxError")
    ELSE JSONMembers(s, 2, <<>>)

\* parsed[key]: <<>> when the object has no such member, else <<value>>
\* (the last member wins, as in JSON.parse).
FieldAmong(parsed, at) ==
    IF at = {} THEN <<>>
    ELSE <<parsed[CHOOSE i \in at : \A j \in at : j <= i].value>>

\* Mutant of Field: the member is taken whatever its key.
FieldOfAnyKey(parsed, key) == FieldAmong(parsed, 1..Len(parsed))

Field(parsed, key) ==
    FieldAmong(parsed, {i \in 1..Len(parsed) : parsed[i].key = key})

\* z.number().int().positive() on the member f of the parsed object.
PositiveInt(f) == Len(f) = 1 /\ f[1].isInt /\ f[1].n > 0

\* z.number().int().nonnegative() on the member f of the parsed object.
NonNegativeInt(f) == Len(f) = 1 /\ f[1].isInt /\ f[1].n >= 0

\* z.object({ page: z.number().int().positive() }).parse(parsed)
PagePayloadCheck(f) ==
    IF PositiveInt(f) THEN Returned([page |-> f[1].n]) ELSE Thrown("ZodError")

PagePayloadSchema(parsed) == PagePayloadCheck(Field(parsed, KeyPage))

\* z.object({ offset: z.number().int().nonnegative() }).parse(parsed)
OffsetPayloadCheck(f) ==
    IF NonNegativeInt(f) THEN Returned([offset |-> f[1].n]) ELSE Thrown("ZodError")

OffsetPayloadSchema(parsed) == OffsetPayloadCheck(Field(parsed, KeyOffset))

\* A cursor argument is a JavaScript number or a string.
NumberCursor(n) == [type |-> "number", n |-> n, s |-> <<>>]
StringCursor(s) == [type |-> "string", n |-> 0, s |-> s]

\* /^\d+$/.test(s)
\* Mutant of AllDigits: a leading zero is not taken as a number.
AllDigitsNoLeadingZero(s) ==
    /\ Len(s) > 0 /\ \A i \in 1..Len(s) : IsDigit(s[i])
    /\ (Len(s) > 1 => s[1] # 48)

AllDigits(s) == Len(s) > 0 /\ \A i \in 1..Len(s) : IsDigit(s[i])

\* Number(s) for an all-digit string.
StringToNumber(s) == DigitsValue(s, 1, Len(s) + 1)

InvalidPageCursor ==
    "Invalid cursor. Use the cursor returned by the server, or pass a numeric page (e.g. 1)."
InvalidTextCursor ==
    "Invalid cursor. Use next_cursor returned by the server, or pass a numeric offset (e.g. 0)."

\* try { ... } catch { throw new Error(message) }
\* Mutant of CatchAll: a failed decode falls back to the first page or offset.
CatchAllDefault(r, message) ==
    IF r.threw THEN Returned([page |-> 1, offset |-> 0]) ELSE r

CatchAll(r, message) == IF r.threw THEN Thrown(message) ELSE r

encodePageCursor(value) == Base64UrlEncode(JSONStringify(value))

\* The statements of decodePageCursor's try block:
\*   raw = Buffer.from(cursor, "base64url").toString("utf8")
\*   parsed = JSON.parse(raw)
\*   return z.object({ page: ... }).parse(parsed)
PageSchemaOn(parsed) ==
    IF parsed.threw THEN parsed ELSE PagePayloadSchema(parsed.value)

TryDecodePage(s) == PageSchemaOn(JSONParse(Base64UrlDecode(s)))

decodePageCursor(cursor) ==
    IF cursor.type = "number" THEN Returned([page |-> cursor.n])
    ELSE IF AllDigits(cursor.s) THEN Returned([page |-> StringToNumber(cursor.s)])
    ELSE CatchAll(TryDecodePage(cursor.s), InvalidPageCursor)

encodeTextCursor(value) == Base64UrlEncode(JSONStringify(value))

\* The statements of decodeTextCursor's try block.
OffsetSchemaOn(parsed) ==
    IF parsed.threw THEN parsed ELSE OffsetPayloadSchema(parsed.value)

TryDecodeText(s) == OffsetSchemaOn(JSONParse(Base64UrlDecode(s)))

decodeTextCursor(cursor) ==
    IF cursor.type = "number" THEN Returned([offset |-> cursor.n])
    ELSE IF AllDigits(cursor.s) THEN Returned([offset |-> StringToNumber(cursor.s)])
    ELSE CatchAll(TryDecodeText(cursor.s), InvalidTextCursor)

\* An argument the caller left out.
Undefined == [type |-> "undefined", n |-> 0, s |-> <<>>]

\* The `cursor` member of ListTasksSchema and ListCommentsSchema:
\* z.union([z.string().min(1), z.number().int().positive(),
\*          z.string().regex(/^\d+$/)]).optional()
PageCursorArgOk(c) ==
    \/ c.type = "undefined"
    \/ c.type = "string" /\ Len(c.s) >= 1
    \/ c.type = "number" /\ c.n > 0

\* The `cursor` member of TaskDescriptionMoreSchema and
\* CommentTextMoreSchema: the number may be 0.
TextCursorArgOk(c) ==
    \/ c.type = "undefined"
    \/ c.type = "string" /\ Len(c.s) >= 1
    \/ c.type = "number" /\ c.n >= 0

\* The `page` member: z.number().int().positive().optional(); <<>> when
\* left out.
PageArgOk(p) == p = <<>> \/ p[1] > 0

\* JavaScript truthiness of a cursor argument (`parsed.cursor ? ... : ...`).
Truthy(c) ==
    \/ c.type = "string" /\ Len(c.s) > 0
    \/ c.type = "number" /\ c.n # 0

\* What a handler's decoder call left behind: the decoder's result, or
\* Skipped when the handler did not call the decoder.
Skipped   == [called |-> FALSE, threw |-> FALSE, value |-> <<>>]
Called(r) == [called |-> TRUE, threw |-> r.threw, value |-> r.value]

\* decodePageCursor(parsed.cursor).page: a throw of the decoder ends the
\* handler.
PageOf(d) ==
    [decode |-> Called(d),
     used   |-> IF d.threw THEN d ELSE Returned(d.value.page)]

\* decodeTextCursor(parsed.cursor).offset
OffsetOf(d) ==
    [decode |-> Called(d),
     used   |-> IF d.threw THEN d ELSE Returned(d.value.offset)]

\* tasks_list and comments_list, up to the page they go on with:
\*   parsed = Schema.parse(args)
\*   pageFromCursor = parsed.cursor ? decodePageCursor(parsed.cursor).page : null
\*   page = pageFromCursor ?? parsed.page ?? 1
ResolvePage(cursorArg, pageArg) ==
    IF ~PageCursorArgOk(cursorArg) \/ ~PageArgOk(pageArg) THEN
        [decode |-> Skipped, used |-> Thrown("ZodError")]
    ELSE IF Truthy(cursorArg) THEN PageOf(decodePageCursor(cursorArg))
    ELSE [decode |-> Skipped,
          used   |-> Returned(IF pageArg = <<>> THEN 1 ELSE pageArg[1])]

\* task_description_more and comment_text_more, up to the offset they
\* chunk from:
\*   offset = parsed.cursor ? decodeTextCursor(parsed.cursor).offset : 0
ResolveOffset(cursorArg) ==
    IF ~TextCursorArgOk(cursorArg) THEN
        [decode |-> Skipped, used |-> Thrown("ZodError")]
    ELSE IF Truthy(cursorArg) THEN OffsetOf(decodeTextCursor(cursorArg))
    ELSE [decode |-> Skipped, used |-> Returned(0)]

\* {"<key>":<number text>} as JSON text.
ObjectText(key, number) == <<123, 34>> \o key \o <<34, 58>> \o number \o <<125>>

\* Cursor strings a client can make up without the server's help.
ClientStrings ==
    { <<48>>,                                   \* 0
      <<49>>,                                   \* 1
      <<51, 55>>,                               \* 37
      <<48, 48, 55>>,                           \* 007
      <<>>,                                     \* the empty string
      <<110, 111, 116, 45, 97, 45, 116, 111, 107, 101, 110>>,  \* not-a-token
      <<63, 63, 63>>,                           \* ???
      Base64UrlEncode(ObjectText(KeyPage, <<48>>)),            \* {"page":0}
      Base64UrlEncode(ObjectText(KeyPage, <<45, 49>>)),        \* {"page":-1}
      Base64UrlEncode(ObjectText(KeyPage, <<49, 46, 53>>)),    \* {"page":1.5}
      Base64UrlEncode(ObjectText(KeyOffset, <<45, 49>>)),      \* {"offset":-1}
      Base64UrlEncode(ObjectText(KeyOffset, <<50, 46, 53>>)),  \* {"offset":2.5}
      Base64UrlEncode(<<123, 125>>),                           \* {}
      Base64UrlEncode(<<123, 34>> \o KeyPage \o <<34, 58, 50>>) \* {"page":2
    }

ClientCursors ==
    {Undefined} \cup {StringCursor(s) : s \in ClientStrings}
                \cup {NumberCursor(n) : n \in {-1, 0, 1, 5}}

NoCursor == [kind |-> "none", payload |-> 0, token |-> <<>>]
NoCall   == [tool |-> "none", source |-> "none", cursor |-> Undefined, page |-> <<>>]
NoResult == [decode |-> Skipped, used |-> Returned(0)]

\* A list response carries cursor, next_cursor and prev_cursor, each made
\* by encodePageCursor from a page number.
EmitPageCursor ==
    /\ \E p \in 1..MaxPage :
          emitted' = [kind |-> "page", payload |-> p,
                      token |-> encodePageCursor([page |-> p])]
    /\ passed' = NoCall
    /\ decoded' = NoResult
    /\ UNCHANGED <<chunkVars, sortVars, serverVars, columnVars, toolVars>>

\* A chunk response carries next_cursor, made by encodeTextCursor from an
\* offset.
EmitTextCursor ==
    /\ \E o \in 0..MaxOffset :
          emitted' = [kind |-> "text", payload |-> o,
                      token |-> encodeTextCursor([offset |-> o])]
    /\ passed' = NoCall
    /\ decoded' = NoResult
    /\ UNCHANGED <<chunkVars, sortVars, serverVars, columnVars, toolVars>>

\* A client calls a list tool (tasks_list, comments_list) with the cursor
\* it was given.
PageToolWithEmitted ==
    /\ emitted.kind # "none"
    /\ passed' = [tool |-> "page", source |-> "server",
                  cursor |-> StringCursor(emitted.token), page |-> <<>>]
    /\ decoded' = ResolvePage(StringCursor(emitted.token), <<>>)
    /\ UNCHANGED <<emitted, chunkVars, sortVars, serverVars, columnVars, toolVars>>

\* A client calls a chunk tool (task_description_more, comment_text_more)
\* with the cursor it was given.
TextToolWithEmitted ==
    /\ emitted.kind # "none"
    /\ passed' = [tool |-> "text", source |-> "server",
                  cursor |-> StringCursor(emitted.token), page |-> <<>>]
    /\ decoded' = ResolveOffset(StringCursor(emitted.token))
    /\ UNCHANGED <<emitted, chunkVars, sortVars, serverVars, columnVars, toolVars>>

\* A client calls a list tool with a cursor of its own making.
PageToolWithClientCursor ==
    /\ \E c \in ClientCursors, p \in {<<>>, <<0>>, <<2>>} :
          /\ passed' = [tool |-> "page", source |-> "client",
                        cursor |-> c, page |-> p]
          /\ decoded' = ResolvePage(c, p)
    /\ UNCHANGED <<emitted, chunkVars, sortVars, serverVars, columnVars, toolVars>>

\* A client calls a chunk tool with a cursor of its own making.
TextToolWithClientCursor ==
    /\ \E c \in ClientCursors :
          /\ passed' = [tool |-> "text", source |-> "client",
                        cursor |-> c, page |-> <<>>]
          /\ decoded' = ResolveOffset(c)
    /\ UNCHANGED <<emitted, chunkVars, sortVars, serverVars, columnVars, toolVars>>

CursorNext ==
    \/ EmitPageCursor
    \/ EmitTextCursor
    \/ PageToolWithEmitted
    \/ TextToolWithEmitted
    \/ PageToolWithClientCursor
    \/ TextToolWithClientCursor

(***************************************************************************)
(* Text chunker                                                            *)
(***************************************************************************)
MaxTextLen == 5
MaxWindow == 3

Max(a, b) == IF a >= b THEN a ELSE b
Min(a, b) == IF a <= b THEN a ELSE b

\* Mutant of Substring: the end index is taken as inclusive.
SubstringInclusive(s, a, b) ==
    SubSeq(s, Min(Max(a, 0), Len(s)) + 1, Min(Max(b, 0) + 1, Len(s)))

\* String.prototype.substring(a, b): both indices are clamped to
\* [0, length] and swapped when a > b.
Substring(s, a, b) ==
    LET ca == Min(Max(a, 0), Len(s))
        cb == Min(Max(b, 0), Len(s))
    IN  SubSeq(s, Min(ca, cb) + 1, Max(ca, cb))

\* Mutant of ChunkWindow: the next window starts one character late.
ChunkWindowSkipping(chunk, start, end, length) ==
    [chunk      |-> chunk,
     offset     |-> start,
     nextOffset |-> IF end + 1 < length THEN <<end + 1>> ELSE <<>>,
     nextCursor |-> IF end + 1 < length
                    THEN <<encodeTextCursor([offset |-> end + 1])>> ELSE <<>>]

\* The object textChunk returns; null is <<>>, a value v is <<v>>.
ChunkWindow(chunk, start, end, length) ==
    [chunk      |-> chunk,
     offset     |-> start,
     nextOffset |-> IF end < length THEN <<end>> ELSE <<>>,
     nextCursor |-> IF end < length THEN <<encodeTextCursor([offset |-> end])>>
                    ELSE <<>>]

ChunkBetween(text, start, end) ==
    ChunkWindow(Substring(text, start, end), start, end, Len(text))

ChunkFrom(text, start, maxLen) ==
    ChunkBetween(text, start, Min(Len(text), start + maxLen))

textChunk(text, offset, maxLen) == ChunkFrom(text, Max(0, offset), maxLen)

\* Descriptions: every text of at most MaxTextLen characters over a, b.
Texts == UNION {[1..n -> {97, 98}] : n \in 0..MaxTextLen}

NoChunkCall ==
    [outcome |-> "none", cursor |-> Undefined, offset |-> 0, chunk |-> <<>>,
     nextOffset |-> <<>>, nextCursor |-> <<>>, chain |-> FALSE, count |-> 0]

\* The task_description_more handler with the remote task read succeeding:
\*   result = await getTaskByLocalId(...)
\*   offset = parsed.cursor ? decodeTextCursor(parsed.cursor).offset : 0
\*   { chunk, nextOffset, nextCursor } = textChunk(task.description, offset,
\*                                                 env.descriptionMaxChars)
\* The response prints the decoded offset, next_offset and next_cursor (each
\* only when it is not null) and the chunk.
ChunkResponse(cursorArg, offset, c) ==
    [outcome |-> "ok", cursor |-> cursorArg, offset |-> offset,
     chunk |-> c.chunk, nextOffset |-> c.nextOffset, nextCursor |-> c.nextCursor]

ChunkAt(cursorArg, r) ==
    IF r.used.threw THEN
        [outcome |-> "error", cursor |-> cursorArg, offset |-> 0,
         chunk |-> <<>>, nextOffset |-> <<>>, nextCursor |-> <<>>]
    ELSE ChunkResponse(cursorArg, r.used.value,
                       textChunk(description, r.used.value, maxChars))

TaskDescriptionMore(cursorArg) == ChunkAt(cursorArg, ResolveOffset(cursorArg))

WithChain(resp, chain, count) ==
    [outcome |-> resp.outcome, cursor |-> resp.cursor, offset |-> resp.offset,
     chunk |-> resp.chunk, nextOffset |-> resp.nextOffset,
     nextCursor |-> resp.nextCursor, chain |-> chain, count |-> count]

\* The client starts reading a description: a call without cursor.
StartReading ==
    /\ LET resp == TaskDescriptionMore(Undefined)
       IN  /\ chunkCall' = WithChain(resp, TRUE, 1)
           /\ received' = resp.chunk
    /\ UNCHANGED <<description, maxChars, cursorVars, sortVars, serverVars, columnVars, toolVars>>

\* The client passes the next_cursor of the last response back.
FollowNextCursor ==
    /\ chunkCall.chain
    /\ chunkCall.nextCursor # <<>>
    /\ LET resp == TaskDescriptionMore(StringCursor(chunkCall.nextCursor[1]))
       IN  /\ chunkCall' = WithChain(resp, TRUE, chunkCall.count + 1)
           /\ received' = received \o resp.chunk
    /\ UNCHANGED <<description, maxChars, cursorVars, sortVars, serverVars, columnVars, toolVars>>

\* The client asks for the chunk at an offset of its choice, as a number or
\* as a digit string.
ReadAtOffset ==
    /\ \E o \in 0..(MaxTextLen + 2) :
          \E arg \in {StringCursor(Digits(o)), NumberCursor(o)} :
              /\ chunkCall' = WithChain(TaskDescriptionMore(arg), FALSE, 0)
              /\ received' = <<>>
    /\ UNCHANGED <<description, maxChars, cursorVars, sortVars, serverVars, columnVars, toolVars>>

\* The remote task read fails: the handler ends in an error response before
\* it looks at the cursor; the client still holds what it had.
TaskReadFails ==
    /\ chunkCall.outcome # "none"
    /\ chunkCall' = [chunkCall EXCEPT !.outcome = "error"]
    /\ UNCHANGED <<description, maxChars, received, cursorVars, sortVars, serverVars, columnVars, toolVars>>

ChunkNext ==
    \/ StartReading
    \/ FollowNextCursor
    \/ ReadAtOffset
    \/ TaskReadFails

(***************************************************************************)
(* Deterministic sorter                                                    *)
(***************************************************************************)
MaxTaskId == 3
MaxTasks == 3

\* Date.parse of the ISO timestamps the model uses, in milliseconds since
\* 2024-05-01T00:00:00Z (Date.parse counts from 1970; compareDateString
\* only subtracts two results, so the common origin cancels out).
DateParse(s) ==
    CASE s = "2024-05-01T10:00:00Z"      -> 36000000
      [] s = "2024-05-01T12:00:00+02:00" -> 36000000
      [] s = "2024-05-01T11:00:00Z"      -> 39600000

compareDateString(a, b) == DateParse(a) - DateParse(b)

SortModes ==
    {"updated_at_desc", "updated_at_asc", "created_at_desc", "created_at_asc",
     "local_task_id_desc", "local_task_id_asc"}

\* The difference of the primary fields as the mode's comparator takes it.
PrimaryDiff(left, right, mode) ==
    CASE mode = "updated_at_desc" -> compareDateString(right.updated_at, left.updated_at)
      [] mode = "updated_at_asc"  -> compareDateString(left.updated_at, right.updated_at)
      [] mode = "created_at_desc" -> compareDateString(right.created_at, left.created_at)
      [] mode = "created_at_asc"  -> compareDateString(left.created_at, right.created_at)
      [] mode = "local_task_id_desc" -> right.local_task_id - left.local_task_id
      [] mode = "local_task_id_asc"  -> left.local_task_id - right.local_task_id

\* Mutant of CompareTasks: on a tie the left task counts as the greater.
CompareTasksTieGreater(left, right, mode) ==
    IF PrimaryDiff(left, right, mode) # 0 THEN PrimaryDiff(left, right, mode) ELSE 1

\* Mutant of CompareTasks: ties are broken by ascending id in every mode.
CompareTasksTieAscending(left, right, mode) ==
    IF PrimaryDiff(left, right, mode) # 0 THEN PrimaryDiff(left, right, mode)
    ELSE left.id - right.id

\* Mutant of CompareTasks: ties are not broken.
CompareTasksNoTieBreak(left, right, mode) == PrimaryDiff(left, right, mode)

\* The comparator sortTasks hands to Array.prototype.sort.
CompareTasks(left, right, mode) ==
    CASE mode = "updated_at_desc" ->
            LET diff == compareDateString(right.updated_at, left.updated_at)
            IN  IF diff # 0 THEN diff ELSE right.id - left.id
      [] mode = "updated_at_asc" ->
            LET diff == compareDateString(left.updated_at, right.updated_at)
            IN  IF diff # 0 THEN diff ELSE left.id - right.id
      [] mode = "created_at_desc" ->
            LET diff == compareDateString(right.created_at, left.created_at)
            IN  IF diff # 0 THEN diff ELSE right.id - left.id
      [] mode = "created_at_asc" ->
            LET diff == compareDateString(left.created_at, right.created_at)
            IN  IF diff # 0 THEN diff ELSE left.id - right.id
      [] mode = "local_task_id_desc" ->
            IF right.local_task_id # left.local_task_id
            THEN right.local_task_id - left.local_task_id
            ELSE right.id - left.id
      [] mode = "local_task_id_asc" ->
            IF left.local_task_id # right.local_task_id
            THEN left.local_task_id - right.local_task_id
            ELSE left.id - right.id

\* Array.prototype.sort is a stable sort: an element goes behind every
\* element it does not compare smaller than.
RECURSIVE InsertTask(_, _, _)
InsertTask(arr, x, mode) ==
    IF arr = <<>> THEN <<x>>
    ELSE IF CompareTasks(arr[Len(arr)], x, mode) > 0
         THEN Append(InsertTask(SubSeq(arr, 1, Len(arr) - 1), x, mode), arr[Len(arr)])
         ELSE Append(arr, x)

RECURSIVE ArraySort(_, _)
ArraySort(arr, mode) ==
    IF arr = <<>> THEN <<>>
    ELSE InsertTask(ArraySort(SubSeq(arr, 1, Len(arr) - 1), mode), arr[Len(arr)], mode)

\* Mutant of sortTasks: mode "api" sorts by update time.
sortTasksNoApi(list, mode) ==
    ArraySort(list, IF mode = "api" THEN "updated_at_desc" ELSE mode)

sortTasks(list, mode) ==
    IF mode = "api" THEN list ELSE ArraySort(list, mode)

\* The sortable fields a task of a fetched page can carry next to its id:
\* each field has two tasks that tie on it (for the timestamps, two
\* different strings for one instant) and one that differs.
TaskFields ==
    { [updated_at |-> "2024-05-01T10:00:00Z",
       created_at |-> "2024-05-01T11:00:00Z", local_task_id |-> 7],
      [updated_at |-> "2024-05-01T12:00:00+02:00",
       created_at |-> "2024-05-01T10:00:00Z", local_task_id |-> 7],
      [updated_at |-> "2024-05-01T11:00:00Z",
       created_at |-> "2024-05-01T12:00:00+02:00", local_task_id |-> 3] }

Tasks ==
    { [id |-> i, updated_at |-> f.updated_at, created_at |-> f.created_at,
       local_task_id |-> f.local_task_id] : i \in 1..MaxTaskId, f \in TaskFields }

TaskLists == UNION {[1..n -> Tasks] : n \in 0..MaxTasks}

\* The list with the elements at k and k + 1 exchanged.
SwapAt(list, k) ==
    [i \in 1..Len(list) |->
        IF i = k THEN list[k + 1] ELSE IF i = k + 1 THEN list[k] ELSE list[i]]

NoSort == [calls |-> 0, once |-> <<>>, twice |-> <<>>, swapped |-> 0, other |-> <<>>]

\* tasks_list sorts the filtered page: tasks = sortTasks(tasks, parsed.sort)
Sort ==
    /\ sorted.calls = 0
    /\ sorted' = [sorted EXCEPT !.calls = 1, !.once = sortTasks(tasks, sortMode)]
    /\ UNCHANGED <<tasks, sortMode, serverVars, cursorVars, chunkVars, columnVars, toolVars>>

\* The result is sorted once more in the same mode.
SortAgain ==
    /\ sorted.calls = 1
    /\ sorted' = [sorted EXCEPT !.calls = 2,
                                !.twice = sortTasks(sorted.once, sortMode)]
    /\ UNCHANGED <<tasks, sortMode, serverVars, cursorVars, chunkVars, columnVars, toolVars>>

\* The same tasks arrive with two neighbours exchanged and are sorted in
\* the same mode.
SortSwapped ==
    /\ sorted.calls >= 1
    /\ sorted.swapped = 0
    /\ \E k \in 1..(Len(tasks) - 1) :
          sorted' = [sorted EXCEPT !.swapped = k,
                                   !.other = sortTasks(SwapAt(tasks, k), sortMode)]
    /\ UNCHANGED <<tasks, sortMode, serverVars, cursorVars, chunkVars, columnVars, toolVars>>

SortNext ==
    \/ Sort
    \/ SortAgain
    \/ SortSwapped

(***************************************************************************)
(* Column identity cache                                                   *)
(***************************************************************************)
MaxCalls == 2

\* env.projectId, the one project the worker server is configured for.
EnvProjectId == 1

\* A JavaScript Map is the set of its <<key, value>> entries.
MapHas(m, k) == \E e \in m : e[1] = k
MapGet(m, k) == (CHOOSE e \in m : e[1] = k)[2]
MapSet(m, k, v) == {e \in m : e[1] # k} \cup {<<k, v>>}
MapKeys(m) == {e[1] : e \in m}

\* String.prototype.toLowerCase on the column names of the model.
ToLowerCase(name) ==
    CASE name = "To Do"   -> "to do"
      [] name = "TO DO"   -> "to do"
      [] name = "Done"    -> "done"
      [] name = "Backlog" -> "backlog"
      [] name = "Blocked" -> "blocked"
      [] name = "BLOCKED" -> "blocked"
      [] name = "UI"      -> "ui"
      [] name \in {"", "to do", "done", "backlog", "blocked", "ui", "nope"} -> name

\* Column lists the remote side can hold for the project: none, a board, the
\* board with a column renamed, with a column added (its name differing
\* from another's in case only), with a column removed.
ColumnLists ==
    { <<>>,
      <<[id |-> 1, name |-> "To Do"], [id |-> 2, name |-> "Done"]>>,
      <<[id |-> 1, name |-> "Backlog"], [id |-> 2, name |-> "Done"]>>,
      <<[id |-> 1, name |-> "To Do"], [id |-> 2, name |-> "Done"],
        [id |-> 3, name |-> "TO DO"]>>,
      <<[id |-> 2, name |-> "Done"]>> }

\* The loop of getColumnMappings over result.columns:
\*   idToName.set(col.id, col.name)
RECURSIVE BuildIdToName(_)
BuildIdToName(columns) ==
    IF columns = <<>> THEN {}
    ELSE LET col == columns[Len(columns)]
         IN  MapSet(BuildIdToName(SubSeq(columns, 1, Len(columns) - 1)),
                    col.id, col.name)

\*   nameToId.set(col.name.toLowerCase(), col.id)
RECURSIVE BuildNameToId(_)
BuildNameToId(columns) ==
    IF columns = <<>> THEN {}
    ELSE LET col == columns[Len(columns)]
         IN  MapSet(BuildNameToId(SubSeq(columns, 1, Len(columns) - 1)),
                    ToLowerCase(col.name), col.id)

Calls == 1..MaxCalls

NoMaps == [idToName |-> {}, nameToId |-> {}]

\* A call slot.  state: idle, awaiting (the column fetch is in flight),
\* returned or threw.  response: what the remote side answered to the call's
\* fetch (none, ok, failed).  cachedAtStart and prior record what the call
\* found when it started: whether the cache held the project, and how the
\* call that ended last before it had ended.  fetches counts the column
\* fetches the call issued.
IdleCall ==
    [state |-> "idle", response |-> "none", cachedAtStart |-> FALSE,
     prior |-> "none", fetches |-> 0, result |-> NoMaps]

CachedMaps ==
    [idToName |-> MapGet(columnCache, EnvProjectId),
     nameToId |-> MapGet(columnNameToIdCache, EnvProjectId)]

\* Mutant of GetColumnMappingsStart: the cache is not consulted.
GetColumnMappingsStartUncached(projectId) ==
    [state |-> "awaiting", response |-> "none",
     cachedAtStart |-> MapHas(columnCache, projectId),
     prior |-> lastOutcome, fetches |-> 1, result |-> NoMaps]

\* getColumnMappings(projectId) up to its first await: with the project in
\* columnCache it returns the cached maps at once, otherwise it issues
\* listColumns(projectId) and waits.
GetColumnMappingsStart(projectId) ==
    IF MapHas(columnCache, projectId) THEN
        [state |-> "returned", response |-> "none", cachedAtStart |-> TRUE,
         prior |-> lastOutcome, fetches |-> 0, result |-> CachedMaps]
    ELSE
        [state |-> "awaiting", response |-> "none", cachedAtStart |-> FALSE,
         prior |-> lastOutcome, fetches |-> 1, result |-> NoMaps]

\* Mutant of GetColumnMappingsResume: a failed fetch is swallowed and empty
\* maps are stored and returned.
GetColumnMappingsResumePoisoning(call, response, columns) ==
    [columnCache         |-> MapSet(columnCache, EnvProjectId,
                                    IF response = "failed" THEN {}
                                    ELSE BuildIdToName(columns)),
     columnNameToIdCache |-> MapSet(columnNameToIdCache, EnvProjectId,
                                    IF response = "failed" THEN {}
                                    ELSE BuildNameToId(columns)),
     call |-> [call EXCEPT !.state = "returned", !.response = response,
                           !.result = IF response = "failed" THEN NoMaps
                                      ELSE [idToName |-> BuildIdToName(columns),
                                            nameToId |-> BuildNameToId(columns)]]]

\* Mutant of GetColumnMappingsResume: maps already stored for the project are
\* not overwritten.
GetColumnMappingsResumeFirstWins(call, response, columns) ==
    IF response = "failed" THEN
        [columnCache         |-> columnCache,
         columnNameToIdCache |-> columnNameToIdCache,
         call |-> [call EXCEPT !.state = "threw", !.response = "failed"]]
    ELSE
        [columnCache         |->
             IF MapHas(columnCache, EnvProjectId) THEN columnCache
             ELSE MapSet(columnCache, EnvProjectId, BuildIdToName(columns)),
         columnNameToIdCache |->
             IF MapHas(columnCache, EnvProjectId) THEN columnNameToIdCache
             ELSE MapSet(columnNameToIdCache, EnvProjectId, BuildNameToId(columns)),
         call |-> [call EXCEPT !.state = "returned", !.response = "ok",
                               !.result = [idToName |-> BuildIdToName(columns),
                                           nameToId |-> BuildNameToId(columns)]]]

\* getColumnMappings from the await on.  When the fetch failed,
\* bugherdRequest throws and the function lets the error through.  When it
\* answered, the function builds both maps from result.columns, stores them
\* under projectId and returns what the cache holds.
GetColumnMappingsResume(call, response, columns) ==
    IF response = "failed" THEN
        [columnCache         |-> columnCache,
         columnNameToIdCache |-> columnNameToIdCache,
         call |-> [call EXCEPT !.state = "threw", !.response = "failed"]]
    ELSE
        [columnCache         |-> MapSet(columnCache, EnvProjectId, BuildIdToName(columns)),
         columnNameToIdCache |-> MapSet(columnNameToIdCache, EnvProjectId,
                                        BuildNameToId(columns)),
         call |-> [call EXCEPT !.state = "returned", !.response = "ok",
                               !.result = [idToName |-> BuildIdToName(columns),
                                           nameToId |-> BuildNameToId(columns)]]]

\* A caller invokes getColumnMappings while no other invocation is waiting
\* for its fetch.
CallGetColumnMappings(c) ==
    /\ invocation[c].state = "idle"
    /\ \A d \in Calls : invocation[d].state # "awaiting"
    /\ invocation' = [invocation EXCEPT ![c] = GetColumnMappingsStart(EnvProjectId)]
    /\ lastOutcome' = IF invocation'[c].state = "returned" THEN "returned"
                      ELSE lastOutcome
    /\ UNCHANGED <<remoteColumns, columnCache, columnNameToIdCache>>
    /\ UNCHANGED <<cursorVars, chunkVars, sortVars, serverVars, toolVars>>

\* The state after the fetch of call c was answered.
Resumed(c, after) ==
    /\ columnCache' = after.columnCache
    /\ columnNameToIdCache' = after.columnNameToIdCache
    /\ invocation' = [invocation EXCEPT ![c] = after.call]
    /\ lastOutcome' = after.call.state

\* The column fetch answers with the list the remote side holds.
ColumnFetchSucceeds(c) ==
    /\ invocation[c].state = "awaiting"
    /\ Resumed(c, GetColumnMappingsResume(invocation[c], "ok", remoteColumns))
    /\ UNCHANGED remoteColumns
    /\ UNCHANGED <<cursorVars, chunkVars, sortVars, serverVars, toolVars>>

\* The column fetch fails (network, 401, 404, 429, ...).
ColumnFetchFails(c) ==
    /\ invocation[c].state = "awaiting"
    /\ Resumed(c, GetColumnMappingsResume(invocation[c], "failed", <<>>))
    /\ UNCHANGED remoteColumns
    /\ UNCHANGED <<cursorVars, chunkVars, sortVars, serverVars, toolVars>>

\* The caller is done with the outcome of a call.
CallerMovesOn(c) ==
    /\ invocation[c].state \in {"returned", "threw"}
    /\ invocation' = [invocation EXCEPT ![c] = IdleCall]
    /\ UNCHANGED <<remoteColumns, columnCache, columnNameToIdCache, lastOutcome>>
    /\ UNCHANGED <<cursorVars, chunkVars, sortVars, serverVars, toolVars>>

\* Somebody edits the board on the remote side.
RemoteColumnsChange ==
    /\ remoteColumns' \in ColumnLists \ {remoteColumns}
    /\ UNCHANGED <<columnCache, columnNameToIdCache, invocation, lastOutcome>>
    /\ UNCHANGED <<cursorVars, chunkVars, sortVars, serverVars, toolVars>>

ColumnNextSequential ==
    \/ \E c \in Calls : CallGetColumnMappings(c)
    \/ \E c \in Calls : ColumnFetchSucceeds(c)
    \/ \E c \in Calls : ColumnFetchFails(c)
    \/ \E c \in Calls : CallerMovesOn(c)
    \/ RemoteColumnsChange

\* A tool invocation reaches getColumnMappings whatever the other
\* invocations are doing: the handlers are async functions, and one that
\* waits for its column fetch does not keep another from starting.
CallGetColumnMappingsConcurrently(c) ==
    /\ invocation[c].state = "idle"
    /\ invocation' = [invocation EXCEPT ![c] = GetColumnMappingsStart(EnvProjectId)]
    /\ lastOutcome' = IF invocation'[c].state = "returned" THEN "returned"
                      ELSE lastOutcome
    /\ UNCHANGED <<remoteColumns, columnCache, columnNameToIdCache>>
    /\ UNCHANGED <<cursorVars, chunkVars, sortVars, serverVars, toolVars>>

\* Overlapping invocations; each call slot stands for one invocation.
ColumnNextConcurrent ==
    \/ \E c \in Calls : CallGetColumnMappingsConcurrently(c)
    \/ \E c \in Calls : ColumnFetchSucceeds(c)
    \/ \E c \in Calls : ColumnFetchFails(c)
    \/ RemoteColumnsChange

(***************************************************************************)
(* List and move tools                                                     *)
(***************************************************************************)
MaxPageSize == 2
MaxRemoteTasks == 2
MaxComments == 3

Scopes == {"taskboard", "all", "feedback", "archived"}

\* An optional value is <<>> when absent (undefined or null) and <<v>>
\* when present.
\* Tasks a remote page can hold: with a status_id and no status label, with
\* a label and no status_id, with both; with a priority name or only a
\* priority_id; with tags in either case.
BoardTasks ==
    { [id |-> 21, local_task_id |-> 4,
       updated_at |-> "2024-05-01T10:00:00Z", created_at |-> "2024-05-01T11:00:00Z",
       status_id |-> <<1>>, status |-> <<>>,
       priority |-> <<"critical">>, priority_id |-> <<1>>, tag_names |-> <<"UI">>],
      [id |-> 22, local_task_id |-> 3,
       updated_at |-> "2024-05-01T11:00:00Z", created_at |-> "2024-05-01T10:00:00Z",
       status_id |-> <<2>>, status |-> <<>>,
       priority |-> <<>>, priority_id |-> <<1>>, tag_names |-> <<>>],
      [id |-> 23, local_task_id |-> 2,
       updated_at |-> "2024-05-01T12:00:00+02:00",
       created_at |-> "2024-05-01T12:00:00+02:00",
       status_id |-> <<>>, status |-> <<"Blocked">>,
       priority |-> <<>>, priority_id |-> <<>>, tag_names |-> <<"ui">>],
      [id |-> 24, local_task_id |-> 1,
       updated_at |-> "2024-05-01T10:00:00Z", created_at |-> "2024-05-01T10:00:00Z",
       status_id |-> <<3>>, status |-> <<"Done">>,
       priority |-> <<"normal">>, priority_id |-> <<3>>, tag_names |-> <<>>] }

\* The pages the remote side can answer with: up to MaxRemoteTasks tasks,
\* no task twice, in any order.
RemotePages ==
    UNION { {p \in [1..n -> BoardTasks] : \A i, j \in 1..n : i # j => p[i] # p[j]}
            : n \in 0..MaxRemoteTasks }

\* PRIORITY_MAP[priorityId] ?? "not set", and "not set" for null.
getPriorityName(priorityId) ==
    IF priorityId = <<>> THEN "not set"
    ELSE CASE priorityId[1] = 1 -> "critical"
           [] priorityId[1] = 2 -> "important"
           [] priorityId[1] = 3 -> "normal"
           [] priorityId[1] = 4 -> "minor"
           [] OTHER -> "not set"

\* JavaScript truthiness of an optional string argument.
TruthyString(s) == s # <<>> /\ s[1] # ""

\* Mutant of StatusFilter: the status is compared with the labels only.
StatusFilterByLabel(list, status, nameToId) ==
    IF ~TruthyString(status) THEN list
    ELSE SelectSeq(list, LAMBDA t :
            t.status # <<>> /\ ToLowerCase(t.status[1]) = ToLowerCase(status[1]))

\* if (parsed.status) { targetId = nameToId.get(parsed.status.toLowerCase());
\*   typeof targetId === "number" ? filter by status_id : filter by label }
StatusFilter(list, status, nameToId) ==
    IF ~TruthyString(status) THEN list
    ELSE IF MapHas(nameToId, ToLowerCase(status[1])) THEN
        SelectSeq(list, LAMBDA t :
            t.status_id = <<MapGet(nameToId, ToLowerCase(status[1]))>>)
    ELSE
        SelectSeq(list, LAMBDA t :
            t.status # <<>> /\ ToLowerCase(t.status[1]) = ToLowerCase(status[1]))

\* if (parsed.priority) keep the tasks whose priority name is the argument
PriorityFilter(list, priority) ==
    IF ~TruthyString(priority) THEN list
    ELSE SelectSeq(list, LAMBDA t :
            (IF t.priority # <<>> THEN t.priority[1]
             ELSE getPriorityName(t.priority_id)) = priority[1])

\* if (parsed.tag) keep the tasks one of whose tags is the argument,
\* compared in lower case
TagFilter(list, tag) ==
    IF ~TruthyString(tag) THEN list
    ELSE SelectSeq(list, LAMBDA t :
            \E i \in 1..Len(t.tag_names) :
                ToLowerCase(t.tag_names[i]) = ToLowerCase(tag[1]))

\* if (env.activeColumnIds && (scope === "taskboard" || scope === "all"))
\*   keep the tasks without a status_id and those in an active column
ActiveFilter(list, scope) ==
    IF activeColumnIds = <<>> \/ scope \notin {"taskboard", "all"} THEN list
    ELSE SelectSeq(list, LAMBDA t :
            t.status_id = <<>> \/ t.status_id[1] \in activeColumnIds[1])

\* Array.prototype.slice(start, end): a negative index counts from the end.
SliceIndex(k, length) == IF k < 0 THEN Max(length + k, 0) ELSE Min(k, length)
\* Mutant of Slice: the end index is not applied.
SliceToEnd(list, start, end) ==
    SubSeq(list, SliceIndex(start, Len(list)) + 1, Len(list))

Slice(list, start, end) ==
    SubSeq(list, SliceIndex(start, Len(list)) + 1, SliceIndex(end, Len(list)))

TaskIds(list) == [i \in 1..Len(list) |-> list[i].id]

\* result.meta of a remote list answer; has = FALSE when the answer carries
\* no meta.
NoMeta == [has |-> FALSE, count |-> 0, total_pages |-> <<>>, current_page |-> <<>>]

NoArgs ==
    [cursor |-> Undefined, page |-> <<>>, scope |-> <<>>, sort |-> "api",
     status |-> <<>>, priority |-> <<>>, tag |-> <<>>, to_column_id |-> 0]

\* What the remote side answers during a call: ok = FALSE when a request
\* for tasks, task or comments fails; columnsOk = FALSE when a request for the
\* columns would fail; updateOk = FALSE when a task update would fail.
NoFetched ==
    [ok |-> TRUE, columnsOk |-> TRUE, updateOk |-> TRUE,
     tasks |-> <<>>, meta |-> NoMeta, comments |-> 0]

\* The tool result: isError and the text's parts; an optional line of the
\* text is <<>> when the text does not hold it.
NoAnswer ==
    [isError |-> FALSE, message |-> "", items |-> <<>>, total |-> 0,
     page |-> 0, total_pages |-> <<>>, cursor |-> <<>>,
     next_page |-> <<>>, prev_page |-> <<>>,
     next_cursor |-> <<>>, prev_cursor |-> <<>>, updates |-> <<>>]

NoToolCall ==
    [tool |-> "none", args |-> NoArgs, fetched |-> NoFetched, answer |-> NoAnswer]

NoRelist == [sort |-> "none", items |-> <<>>]

\* The catch of the CallTool handler: { content: `Error: ${message}`,
\* isError: true }
ErrorAnswer(message) == [NoAnswer EXCEPT !.isError = TRUE, !.message = message]

\* The message of the Error bugherdRequest throws on a response that is not ok.
RemoteFailure == "BugHerd API error"

UnknownColumnId == "Unknown column id. Use columns_list to see valid ids."

\* The cache maps as a pair.
CurrentMaps ==
    [columnCache |-> columnCache, columnNameToIdCache |-> columnNameToIdCache]

\* getColumnMappings(env.projectId) run to its end inside a handler: the
\* maps it leaves in the caches, and whether it throws.
MappingsThrow(columnsOk) == ~MapHas(columnCache, EnvProjectId) /\ ~columnsOk
MappingsAfter(columnsOk) ==
    IF MapHas(columnCache, EnvProjectId) \/ ~columnsOk THEN CurrentMaps
    ELSE [columnCache |->
              MapSet(columnCache, EnvProjectId, BuildIdToName(remoteColumns)),
          columnNameToIdCache |->
              MapSet(columnNameToIdCache, EnvProjectId, BuildNameToId(remoteColumns))]

\* A value printed only when truthy: (v ? `line` : "").
Printed(v) == IF v # <<>> /\ v[1] # 0 THEN v ELSE <<>>

PageCursorOf(p) == IF Printed(p) = <<>> THEN <<>> ELSE <<encodePageCursor([page |-> p[1]])>>

\* The text of a list answer.
ListAnswer(items, total, page, totalPages, nextPage, prevPage) ==
    [isError |-> FALSE, message |-> "", items |-> items, total |-> total,
     page |-> page, total_pages |-> Printed(totalPages),
     cursor |-> <<encodePageCursor([page |-> page])>>,
     next_page |-> Printed(nextPage), prev_page |-> Printed(prevPage),
     next_cursor |-> PageCursorOf(nextPage), prev_cursor |-> PageCursorOf(prevPage),
     updates |-> <<>>]

\* Mutant of TasksNav: a next page is offered whatever the remote side says
\* about the number of pages.
TasksNavUnguarded(limited, total, currentPage, totalPages) ==
    ListAnswer(TaskIds(limited), total, currentPage, totalPages,
               <<currentPage + 1>>,
               IF currentPage > 1 THEN <<currentPage - 1>> ELSE <<>>)

\* tasks_list, navigation:
\*   nextPage = totalPages && currentPage < totalPages ? currentPage + 1 : null
\*   prevPage = currentPage > 1 ? currentPage - 1 : null
TasksNav(limited, total, currentPage, totalPages) ==
    ListAnswer(TaskIds(limited), total, currentPage, totalPages,
               IF Printed(totalPages) # <<>> /\ currentPage < totalPages[1]
               THEN <<currentPage + 1>> ELSE <<>>,
               IF currentPage > 1 THEN <<currentPage - 1>> ELSE <<>>)

\* tasks_list from the sorted list on:
\*   limited = tasks.slice(0, env.pageSize); total = meta?.count ?? tasks.length
\*   currentPage = meta?.current_page ?? page; totalPages = meta?.total_pages ?? null
TasksListOutput(sortedTasks, meta, page) ==
    TasksNav(Slice(sortedTasks, 0, pageSize),
             IF meta.has THEN meta.count ELSE Len(sortedTasks),
             IF meta.has /\ meta.current_page # <<>> THEN meta.current_page[1] ELSE page,
             IF meta.has THEN meta.total_pages ELSE <<>>)

\* listTasks (scope "all"), after its request: a status that names a known
\* column filters the tasks and rewrites meta.count.
ListTasksFiltered(filtered, meta) ==
    [tasks |-> filtered,
     meta  |-> [meta EXCEPT !.has = TRUE, !.count = Len(filtered)]]

listTasks(fetched, status, nameToId) ==
    IF TruthyString(status) /\ MapHas(nameToId, ToLowerCase(status[1]))
    THEN ListTasksFiltered(StatusFilter(fetched.tasks, status, nameToId), fetched.meta)
    ELSE [tasks |-> fetched.tasks, meta |-> fetched.meta]

ScopeOf(args) == IF args.scope = <<>> THEN "taskboard" ELSE args.scope[1]

\* tasks_list from result.tasks on: the filters, the sort, the output.
TasksListFrom(args, page, result, nameToId) ==
    TasksListOutput(
        sortTasks(ActiveFilter(TagFilter(PriorityFilter(
                      StatusFilter(result.tasks, args.status, nameToId),
                      args.priority), args.tag), ScopeOf(args)),
                  args.sort),
        result.meta, page)

TasksListWithMaps(args, page, fetched, maps) ==
    [answer |-> TasksListFrom(args, page,
                    IF ScopeOf(args) = "all"
                    THEN listTasks(fetched, args.status,
                                   MapGet(maps.columnNameToIdCache, EnvProjectId))
                    ELSE [tasks |-> fetched.tasks, meta |-> fetched.meta],
                    MapGet(maps.columnNameToIdCache, EnvProjectId)),
     maps |-> maps]

TasksListWithPage(args, page, fetched) ==
    IF page.threw THEN [answer |-> ErrorAnswer(page.value), maps |-> CurrentMaps]
    ELSE IF ~fetched.ok \/ MappingsThrow(fetched.columnsOk)
    THEN [answer |-> ErrorAnswer(RemoteFailure), maps |-> CurrentMaps]
    ELSE TasksListWithMaps(args, page.value, fetched, MappingsAfter(fetched.columnsOk))

\* case "tasks_list": the answer and the cache maps the call leaves.
TasksListCall(args, fetched) ==
    TasksListWithPage(args, ResolvePage(args.cursor, args.page).used, fetched)

\* Mutant of CommentsWindow: no next page is offered for a last comment
\* alone.
CommentsWindowShort(comments, page, start, end) ==
    ListAnswer(Slice(comments, start, end), Len(comments), page, <<>>,
               IF end + 1 < Len(comments) THEN <<page + 1>> ELSE <<>>,
               IF page > 1 THEN <<page - 1>> ELSE <<>>)

\* comments_list from the comments on:
\*   start = (page - 1) * pageSize; end = start + pageSize
\*   slice = comments.slice(start, end)
\*   nextPage = end < comments.length ? page + 1 : null
\*   prevPage = page > 1 ? page - 1 : null
CommentsWindow(comments, page, start, end) ==
    ListAnswer(Slice(comments, start, end), Len(comments), page, <<>>,
               IF end < Len(comments) THEN <<page + 1>> ELSE <<>>,
               IF page > 1 THEN <<page - 1>> ELSE <<>>)

CommentsListWithPage(page, fetched) ==
    IF page.threw THEN ErrorAnswer(page.value)
    ELSE IF ~fetched.ok THEN ErrorAnswer(RemoteFailure)
    ELSE CommentsWindow([i \in 1..fetched.comments |-> i], page.value,
                        (page.value - 1) * pageSize,
                        (page.value - 1) * pageSize + pageSize)

\* case "comments_list"
CommentsListCall(args, fetched) ==
    CommentsListWithPage(ResolvePage(args.cursor, args.page).used, fetched)

\* Mutant of MoveWithMaps: the task is moved whether the column is known or not.
MoveWithMapsUnchecked(toColumnId, fetched, idToName) ==
    [NoAnswer EXCEPT !.updates = <<"unknown">>]

\* task_move_status from the column maps on:
\*   toName = idToName.get(parsed.to_column_id)
\*   if (!toName) return the unknown-column error result
\*   await updateTask(env.projectId, task.id, { status: toName })
MoveWithMaps(toColumnId, fetched, idToName) ==
    IF ~MapHas(idToName, toColumnId) \/ MapGet(idToName, toColumnId) = ""
    THEN ErrorAnswer(UnknownColumnId)
    ELSE IF ~fetched.updateOk
    THEN [ErrorAnswer(RemoteFailure) EXCEPT
              !.updates = <<MapGet(idToName, toColumnId)>>]
    ELSE [NoAnswer EXCEPT !.updates = <<MapGet(idToName, toColumnId)>>]

\* case "task_move_status": MoveTaskSchema.parse, getTaskByLocalId,
\* getColumnMappings, then the move.
TaskMoveStatusCall(args, fetched) ==
    IF args.to_column_id <= 0
    THEN [answer |-> ErrorAnswer("ZodError"), maps |-> CurrentMaps]
    ELSE IF ~fetched.ok \/ MappingsThrow(fetched.columnsOk)
    THEN [answer |-> ErrorAnswer(RemoteFailure), maps |-> CurrentMaps]
    ELSE [answer |-> MoveWithMaps(args.to_column_id, fetched,
                        MapGet(MappingsAfter(fetched.columnsOk).columnCache,
                               EnvProjectId)),
          maps |-> MappingsAfter(fetched.columnsOk)]

\* The arguments and remote answers the model draws from.
MaxTotalPages == 3

StatusArgs == {<<>>, <<"">>, <<"to do">>, <<"BLOCKED">>, <<"nope">>}

FilterArgs ==
    { [priority |-> <<>>, tag |-> <<>>],
      [priority |-> <<"critical">>, tag |-> <<>>],
      [priority |-> <<>>, tag |-> <<"UI">>] }

Metas ==
    {NoMeta} \cup
    { [has |-> TRUE, count |-> 2, total_pages |-> tp, current_page |-> cp] :
        tp \in {<<>>} \cup {<<n>> : n \in 0..MaxTotalPages},
        cp \in {<<>>} \cup {<<n>> : n \in 1..(MaxTotalPages + 1)} }

PageCursors ==
    { Undefined, StringCursor(<<48>>), NumberCursor(2),
      StringCursor(encodePageCursor([page |-> MaxTotalPages])),
      StringCursor(<<110, 111, 116, 45, 97, 45, 116, 111, 107, 101, 110>>) }

PageArgs == {<<>>, <<2>>, <<MaxTotalPages + 2>>}

\* A tool call is answered: the call and its answer are recorded, the cache
\* maps are as the handler leaves them.  (A call is taken while no answer
\* is pending.)
Answered(tool, args, fetched, r) ==
    /\ lastCall' = [tool |-> tool, args |-> args, fetched |-> fetched,
                    answer |-> r.answer]
    /\ columnCache' = r.maps.columnCache
    /\ columnNameToIdCache' = r.maps.columnNameToIdCache
    /\ relisted' = NoRelist
    /\ UNCHANGED <<pageSize, activeColumnIds, remoteColumns, invocation, lastOutcome>>
    /\ UNCHANGED <<cursorVars, chunkVars, sortVars, serverVars>>

AnsweredCall(tool, args, fetched) ==
    \E r \in { IF tool = "tasks_list" THEN TasksListCall(args, fetched)
               ELSE IF tool = "task_move_status" THEN TaskMoveStatusCall(args, fetched)
               ELSE [answer |-> CommentsListCall(args, fetched),
                     maps |-> CurrentMaps] } :
        Answered(tool, args, fetched, r)

\* tasks_list on the first page with filters and a sort mode.
TasksListFiltered ==
    /\ lastCall.tool = "none"
    /\ \E scope \in {<<>>, <<"all">>, <<"feedback">>, <<"archived">>},
          sort \in SortModes \cup {"api"}, status \in StatusArgs,
          f \in FilterArgs, page \in RemotePages :
           AnsweredCall("tasks_list",
               [NoArgs EXCEPT !.scope = scope, !.sort = sort, !.status = status,
                              !.priority = f.priority, !.tag = f.tag],
               [NoFetched EXCEPT !.tasks = page])

\* tasks_list on a page the client names, the remote side answering with
\* or without meta, or failing.
TasksListPaged ==
    /\ lastCall.tool = "none"
    /\ \E cursor \in PageCursors, page \in PageArgs, meta \in Metas,
          ok \in BOOLEAN, columnsOk \in BOOLEAN,
          list \in {p \in RemotePages : \A i \in 1..MaxRemoteTasks :
                                        i \in DOMAIN p /\ p[i].id = 20 + i} :
           AnsweredCall("tasks_list",
               [NoArgs EXCEPT !.cursor = cursor, !.page = page,
                              !.scope = <<"taskboard">>],
               [NoFetched EXCEPT !.ok = ok, !.columnsOk = columnsOk,
                                 !.tasks = list, !.meta = meta])

\* comments_list on a page the client names.
CommentsList ==
    /\ lastCall.tool = "none"
    /\ \E cursor \in PageCursors, page \in PageArgs,
          ok \in BOOLEAN, n \in 0..MaxComments :
           AnsweredCall("comments_list",
               [NoArgs EXCEPT !.cursor = cursor, !.page = page],
               [NoFetched EXCEPT !.ok = ok, !.comments = n])

\* task_move_status to a column id the client names.
TaskMoveStatus ==
    /\ lastCall.tool = "none"
    /\ \E to \in 0..4, ok \in BOOLEAN, columnsOk \in BOOLEAN, updateOk \in BOOLEAN :
           AnsweredCall("task_move_status",
               [NoArgs EXCEPT !.to_column_id = to],
               [NoFetched EXCEPT !.ok = ok, !.columnsOk = columnsOk,
                                 !.updateOk = updateOk])

\* The answer is delivered and the server waits for the next request.
Delivered ==
    /\ lastCall.tool # "none"
    /\ lastCall' = NoToolCall
    /\ relisted' = NoRelist
    /\ UNCHANGED <<pageSize, activeColumnIds, columnVars>>
    /\ UNCHANGED <<cursorVars, chunkVars, sortVars, serverVars>>

\* The request tasks_list answered last, asked again in another sort mode
\* while the remote side answers as before.
TasksListOtherSort ==
    /\ lastCall.tool = "tasks_list" /\ ~lastCall.answer.isError
    /\ relisted = NoRelist
    /\ \E sort \in (SortModes \cup {"api"}) \ {lastCall.args.sort} :
          relisted' =
              [sort  |-> sort,
               items |-> TasksListCall([lastCall.args EXCEPT !.sort = sort],
                                       lastCall.fetched).answer.items]
    /\ UNCHANGED <<pageSize, activeColumnIds, lastCall, columnVars>>
    /\ UNCHANGED <<cursorVars, chunkVars, sortVars, serverVars>>

ToolsNext ==
    \/ TasksListFiltered
    \/ TasksListPaged
    \/ CommentsList
    \/ TaskMoveStatus
    \/ Delivered

ResortNext ==
    \/ TasksListFiltered
    \/ TasksListOtherSort
    \/ Delivered

(***************************************************************************)
(* Tool invocations, await by await                                        *)
(***************************************************************************)
\* request.params.arguments of a call.
CallArgs(cursor, page, scope, status, localTaskId, otherId) ==
    [cursor |-> cursor, page |-> page, scope |-> scope, sort |-> "api",
     status |-> status, priority |-> <<>>, tag |-> <<>>,
     to_column_id |-> otherId, local_task_id |-> localTaskId,
     comment_id |-> otherId, project_id |-> otherId]

WorkerTools ==
    {"columns_list", "tasks_list", "task_get", "task_description_more",
     "task_move_status", "comments_list", "comment_text_more", "comment_add"}

AdminTools ==
    {"bugherd_list_projects", "bugherd_update_project", "bugherd_delete_project"}

\* Schema.parse(args) of each case: TRUE when it does not throw.
ArgsOk(tool, args) ==
    CASE tool = "tasks_list" ->
            PageCursorArgOk(args.cursor) /\ PageArgOk(args.page)
      [] tool = "comments_list" ->
            /\ args.local_task_id > 0
            /\ PageCursorArgOk(args.cursor) /\ PageArgOk(args.page)
      [] tool = "task_description_more" ->
            args.local_task_id > 0 /\ TextCursorArgOk(args.cursor)
      [] tool = "comment_text_more" ->
            /\ args.local_task_id > 0 /\ args.comment_id > 0
            /\ TextCursorArgOk(args.cursor)
      [] tool = "task_move_status" ->
            args.local_task_id > 0 /\ args.to_column_id > 0
      [] tool \in {"task_get", "comment_add"} -> args.local_task_id > 0
      [] tool \in {"bugherd_update_project", "bugherd_delete_project"} ->
            args.project_id > 0
      [] OTHER -> TRUE

\* Mutant of Program: tasks_list asks the remote side for its list twice.
ProgramListingTwice(tool, args) ==
    IF tool = "tasks_list"
    THEN <<"parse", "decodePageCursor", "listTasks", "listTasks", "getColumnMappings">>
    ELSE <<"default">>

\* The statements of each case of the switch, in the order the handler runs
\* them; a name of a remote function stands for the request it sends
\* and the await on its answer.  listTasks (scope "all") calls
\* getColumnMappings itself when it is given a status.  Every case of the
\* admin server comes after the connection check.
Program(tool, args) ==
    CASE tool = "columns_list" -> <<"listColumns">>
      [] tool = "tasks_list" ->
            <<"parse", "decodePageCursor", "listTasks">>
            \o (IF ScopeOf(args) = "all" /\ TruthyString(args.status)
                THEN <<"getColumnMappings">> ELSE <<>>)
            \o <<"getColumnMappings">>
      [] tool = "task_get" -> <<"parse", "getTaskByLocalId", "getColumnMappings">>
      [] tool = "task_description_more" ->
            <<"parse", "getTaskByLocalId", "decodeTextCursor">>
      [] tool = "task_move_status" ->
            <<"parse", "getTaskByLocalId", "getColumnMappings", "idToName.get",
              "updateTask">>
      [] tool = "comments_list" ->
            <<"parse", "decodePageCursor", "getTaskByLocalId", "listComments">>
      [] tool = "comment_text_more" ->
            <<"parse", "getTaskByLocalId", "listComments", "comments.find",
              "decodeTextCursor">>
      [] tool = "comment_add" -> <<"parse", "getTaskByLocalId", "createComment">>
      [] tool = "bugherd_list_projects" -> <<"verifyConnection", "listProjects">>
      [] tool = "bugherd_update_project" ->
            <<"verifyConnection", "parse", "updateProject">>
      [] tool = "bugherd_delete_project" ->
            <<"verifyConnection", "parse", "deleteProject">>
      [] tool = "no_such_admin_tool" -> <<"verifyConnection", "default">>
      [] OTHER -> <<"default">>

\* A handler run.  pc is the place in Program of the statement the run is
\* at (0 before the call), awaiting tells that the request of that
\* statement is in flight; requests are the remote requests sent so far;
\* resolved is the page or offset the run goes on with; fetched is what
\* the remote side answered, failed that a request of the run failed;
\* outcome is "responded" once the handler has returned `answer`, and
\* "escaped" if an exception left it.
NoHandler ==
    [tool |-> "none", args |-> CallArgs(Undefined, <<>>, <<>>, <<>>, 0, 0),
     pc |-> 0, awaiting |-> FALSE, requests |-> <<>>, resolved |-> 0,
     fetched |-> NoFetched, failed |-> FALSE,
     outcome |-> "none", answer |-> NoAnswer]

NoRemote == [total_pages |-> 1, comments |-> 0]

NoTraversal ==
    [tool |-> "none", pages |-> <<>>, items |-> <<>>, slices |-> <<>>,
     calls |-> 0, again |-> FALSE]

UnableToConnect ==
    "Unable to connect to BugHerd API. Check your BUGHERD_API_KEY environment variable."

\* return { content: [...], isError } from inside the handler.
Return(h, answer) ==
    [h EXCEPT !.awaiting = FALSE, !.outcome = "responded", !.answer = answer]

\* Mutant of Catch: the error is thrown on.
CatchRethrowing(h, message) ==
    [h EXCEPT !.awaiting = FALSE, !.outcome = "escaped"]

\* catch (error) { return { content: `Error: ${message}`, isError: true } }
Catch(h, message) == Return(h, ErrorAnswer(message))

\* Mutant of RequestOf: the list request names no page.
RequestOfFirstPage(step, h) ==
    [endpoint |-> IF step = "listTasks" THEN ScopeOf(h.args) ELSE step,
     page |-> <<>>]

\* The request a remote function sends.  The list functions of the four
\* scopes add ?page= only for a truthy page: (page ? `?page=${page}` : "").
RequestOf(step, h) ==
    IF step = "listTasks"
    THEN [endpoint |-> ScopeOf(h.args),
          page |-> IF h.resolved = 0 THEN <<>> ELSE <<h.resolved>>]
    ELSE [endpoint |-> step, page |-> <<>>]

\* The remote side: a task list of remote.total_pages pages, which answers
\* a list request with the page asked for (the first one when the request
\* names none) and says so in meta; remote.comments comments on the task.
RemoteAnswer(request, fetched) ==
    CASE request.endpoint \in Scopes ->
            [fetched EXCEPT
                !.tasks = <<CHOOSE t \in BoardTasks : t.id = 21>>,
                !.meta = [has |-> TRUE, count |-> remote.total_pages,
                          total_pages |-> <<remote.total_pages>>,
                          current_page |-> IF request.page = <<>> THEN <<1>>
                                           ELSE request.page]]
      [] request.endpoint = "listComments" ->
            [fetched EXCEPT !.comments = remote.comments]
      [] OTHER -> fetched

\* The result a case returns when it reaches its end.
Success(h, maps) ==
    CASE h.tool = "tasks_list" ->
            TasksListWithMaps(h.args, h.resolved, h.fetched, maps).answer
      [] h.tool = "comments_list" ->
            CommentsWindow([i \in 1..h.fetched.comments |-> i], h.resolved,
                           (h.resolved - 1) * pageSize,
                           (h.resolved - 1) * pageSize + pageSize)
      [] h.tool = "task_move_status" ->
            MoveWithMaps(h.args.to_column_id, h.fetched,
                         MapGet(maps.columnCache, EnvProjectId))
      [] OTHER -> NoAnswer

\* The handler runs from statement h.pc on, up to its next await or to its
\* return; maps are the cache maps it finds.
RECURSIVE Run(_, _)
Decoded(h, maps, r) ==
    IF r.threw THEN Catch(h, r.value)
    ELSE Run([h EXCEPT !.pc = @ + 1, !.resolved = r.value], maps)

RunStep(h, maps, step) ==
    CASE step = "parse" ->
            IF ArgsOk(h.tool, h.args) THEN Run([h EXCEPT !.pc = @ + 1], maps)
            ELSE Catch(h, "ZodError")
      [] step = "decodePageCursor" ->
            Decoded(h, maps, ResolvePage(h.args.cursor, h.args.page).used)
      [] step = "decodeTextCursor" ->
            Decoded(h, maps, ResolveOffset(h.args.cursor).used)
      [] step = "comments.find" ->
            IF h.args.comment_id \in 1..h.fetched.comments
            THEN Run([h EXCEPT !.pc = @ + 1], maps)
            ELSE Return(h, ErrorAnswer("Comment not found on task."))
      [] step = "idToName.get" ->
            IF MoveWithMaps(h.args.to_column_id, h.fetched,
                            MapGet(maps.columnCache, EnvProjectId)).isError
            THEN Return(h, ErrorAnswer(UnknownColumnId))
            ELSE Run([h EXCEPT !.pc = @ + 1], maps)
      [] step = "default" -> Return(h, ErrorAnswer("Unknown tool"))
      [] step = "getColumnMappings" /\ MapHas(maps.columnCache, EnvProjectId) ->
            Run([h EXCEPT !.pc = @ + 1], maps)
      [] OTHER ->
            [h EXCEPT !.awaiting = TRUE,
                      !.requests = Append(@, RequestOf(step, h))]

Run(h, maps) ==
    IF h.pc > Len(Program(h.tool, h.args)) THEN Return(h, Success(h, maps))
    ELSE RunStep(h, maps, Program(h.tool, h.args)[h.pc])

\* Mutant of Resume: the admin handler goes on after a failed connection
\* check.
ResumeUngated(h, maps, step, ok) ==
    IF ok \/ step = "verifyConnection" THEN
        Run([h EXCEPT !.awaiting = FALSE, !.pc = @ + 1, !.failed = ~ok], maps)
    ELSE Catch([h EXCEPT !.failed = TRUE], RemoteFailure)

\* The request in flight is answered.  bugherdRequest throws on a response
\* that is not ok; verifyConnection catches that and returns false, and the
\* admin handler then returns its error result.
Resume(h, maps, step, ok) ==
    IF ok THEN
        Run([h EXCEPT !.awaiting = FALSE, !.pc = @ + 1,
                      !.fetched = RemoteAnswer(h.requests[Len(h.requests)], @)],
            maps)
    ELSE IF step = "verifyConnection"
    THEN Return([h EXCEPT !.failed = TRUE], ErrorAnswer(UnableToConnect))
    ELSE Catch([h EXCEPT !.failed = TRUE], RemoteFailure)

\* The handler is entered with a call.
Entered(tool, args) ==
    Run([NoHandler EXCEPT !.tool = tool, !.args = args, !.pc = 1], CurrentMaps)

\* Cursor arguments of the calls: none, "0", the token of page 2, the token
\* of offset 2, a string that is no token, a number no schema accepts.
CallCursors ==
    { Undefined, StringCursor(<<48>>),
      StringCursor(encodePageCursor([page |-> 2])),
      StringCursor(encodeTextCursor([offset |-> 2])),
      StringCursor(<<110, 111, 116, 45, 97, 45, 116, 111, 107, 101, 110>>),
      NumberCursor(-1) }

\* The calls of the model, tool by tool.
CallsOf(tool) ==
    CASE tool = "tasks_list" ->
            { CallArgs(c, p, s.scope, s.status, 0, 0) :
                c \in CallCursors, p \in {<<>>, <<2>>},
                s \in { [scope |-> <<>>, status |-> <<>>],
                        [scope |-> <<"all">>, status |-> <<>>],
                        [scope |-> <<"all">>, status |-> <<"to do">>],
                        [scope |-> <<"feedback">>, status |-> <<"to do">>],
                        [scope |-> <<"archived">>, status |-> <<>>] } }
      [] tool = "comments_list" ->
            { CallArgs(c, p, <<>>, <<>>, id, 0) :
                c \in CallCursors, p \in {<<>>, <<2>>}, id \in {0, 4} }
      [] tool \in {"task_description_more", "comment_text_more"} ->
            { CallArgs(c, <<>>, <<>>, <<>>, id, other) :
                c \in CallCursors, id \in {0, 4}, other \in {1, 9} }
      [] OTHER ->
            { CallArgs(Undefined, <<>>, <<>>, <<>>, id, other) :
                id \in {0, 4}, other \in {0, 1, 9} }

\* A client calls a tool of the project worker server.
CallTool ==
    /\ handler.tool = "none"
    /\ \E tool \in WorkerTools \cup {"no_such_tool"} :
          \E args \in CallsOf(tool) : handler' = Entered(tool, args)
    /\ UNCHANGED <<remote, traversal, http>>
    /\ UNCHANGED <<cursorVars, chunkVars, sortVars, columnVars, toolVars>>

\* A client calls a tool of the admin server.
AdminCallTool ==
    /\ handler.tool = "none"
    /\ \E tool \in AdminTools \cup {"no_such_admin_tool"} :
          \E args \in CallsOf(tool) : handler' = Entered(tool, args)
    /\ UNCHANGED <<remote, traversal, http>>
    /\ UNCHANGED <<cursorVars, chunkVars, sortVars, columnVars, toolVars>>

\* The remote side answers the request in flight, or the request fails.
\* An answered column request of getColumnMappings fills the cache.
RemoteResponds ==
    /\ handler.awaiting
    /\ \E ok \in BOOLEAN :
          \E maps \in { IF ok /\ handler.requests[Len(handler.requests)].endpoint
                                    = "getColumnMappings"
                        THEN MappingsAfter(TRUE) ELSE CurrentMaps } :
              /\ handler' = Resume(handler, maps,
                                   Program(handler.tool, handler.args)[handler.pc], ok)
              /\ columnCache' = maps.columnCache
              /\ columnNameToIdCache' = maps.columnNameToIdCache
    /\ UNCHANGED <<remote, traversal, http>>
    /\ UNCHANGED <<remoteColumns, invocation, lastOutcome>>
    /\ UNCHANGED <<cursorVars, chunkVars, sortVars, toolVars>>

\* The result is sent; the server waits for the next request.
ResponseSent ==
    /\ handler.outcome = "responded"
    /\ handler' = NoHandler
    /\ traversal' = NoTraversal
    /\ UNCHANGED <<remote, http>>
    /\ UNCHANGED <<cursorVars, chunkVars, sortVars, columnVars, toolVars>>

\* The pages the list requests of a run asked the remote side for.
RequestedPages(requests) ==
    [i \in 1..Len(SelectSeq(requests, LAMBDA r : r.endpoint \in Scopes)) |->
        IF SelectSeq(requests, LAMBDA r : r.endpoint \in Scopes)[i].page = <<>>
        THEN 1
        ELSE SelectSeq(requests, LAMBDA r : r.endpoint \in Scopes)[i].page[1]]

\* What the client has seen once the run in progress has responded.
Seen ==
    [traversal EXCEPT
        !.pages  = @ \o RequestedPages(handler.requests),
        !.items  = @ \o handler.answer.items,
        !.slices = Append(@, Len(handler.answer.items))]

\* A client starts to read a list from its first page: tasks_list or
\* comments_list without cursor, the page left out or 1.
TraverseStart ==
    /\ handler.tool = "none"
    /\ \E tool \in {"tasks_list", "comments_list"}, p \in {<<>>, <<1>>},
          scope \in {<<>>, <<"all">>} :
          /\ handler' = Entered(tool, CallArgs(Undefined, p, scope, <<>>, 4, 0))
          /\ traversal' = [NoTraversal EXCEPT !.tool = tool, !.calls = 1]
    /\ UNCHANGED <<remote, http>>
    /\ UNCHANGED <<cursorVars, chunkVars, sortVars, columnVars, toolVars>>

\* The client calls the tool again with the next_cursor of the response.
TraverseNext ==
    /\ handler.outcome = "responded" /\ handler.answer.next_cursor # <<>>
    /\ traversal.tool # "none" /\ ~traversal.again
    /\ handler' = Entered(handler.tool,
                     [handler.args EXCEPT
                         !.cursor = StringCursor(handler.answer.next_cursor[1])])
    /\ traversal' = [Seen EXCEPT !.calls = @ + 1]
    /\ UNCHANGED <<remote, http>>
    /\ UNCHANGED <<cursorVars, chunkVars, sortVars, columnVars, toolVars>>

\* The client calls the tool again with the `cursor` of the response.
TraverseAgain ==
    /\ handler.outcome = "responded" /\ handler.answer.cursor # <<>>
    /\ traversal.tool # "none" /\ ~traversal.again
    /\ handler' = Entered(handler.tool,
                     [handler.args EXCEPT
                         !.cursor = StringCursor(handler.answer.cursor[1])])
    /\ traversal' = [Seen EXCEPT !.calls = @ + 1, !.again = TRUE]
    /\ UNCHANGED <<remote, http>>
    /\ UNCHANGED <<cursorVars, chunkVars, sortVars, columnVars, toolVars>>

TraversalNext ==
    \/ TraverseStart
    \/ TraverseNext
    \/ TraverseAgain
    \/ RemoteResponds
    \/ ResponseSent

HandlerNext ==
    \/ CallTool
    \/ RemoteResponds
    \/ ResponseSent

AdminNext ==
    \/ AdminCallTool
    \/ RemoteResponds
    \/ ResponseSent

(***************************************************************************)
(* HTTP mode: the session table                                            *)
(***************************************************************************)
MaxConnections == 3

\* The values crypto.randomUUID() can return.
SessionIds == {100 + k : k \in 1..MaxConnections}

NoPost == [stage |-> "none", sessionId |-> <<>>, transport |-> 0, status |-> 0]

\* sessions is the Map sessionId -> transport.  A transport is numbered by
\* the SSE connection it was made for; open holds, for every SSE response
\* that has not closed, the transport and the sessionId its close listener
\* deletes; issued are the ids randomUUID has returned.  post is the
\* POST /message being handled, health the last answer of /health.
NoHttp ==
    [sessions |-> {}, open |-> {}, made |-> 0, issued |-> {},
     post |-> NoPost, health |-> <<>>]

\* GET /sse: a transport on the response, a fresh sessionId,
\* sessions.set(sessionId, transport), the close listener, server.connect.
SseConnect ==
    /\ http.made < MaxConnections
    /\ \E sessionId \in SessionIds \ http.issued :
          http' = [http EXCEPT
                      !.sessions = MapSet(@, sessionId, http.made + 1),
                      !.open = @ \cup {<<http.made + 1, sessionId>>},
                      !.made = @ + 1,
                      !.issued = @ \cup {sessionId},
                      !.health = <<>>]
    /\ UNCHANGED <<handler, remote, traversal>>
    /\ UNCHANGED <<cursorVars, chunkVars, sortVars, columnVars, toolVars>>

\* res.on("close", () => sessions.delete(sessionId))
ConnectionCloses ==
    /\ \E c \in http.open :
          http' = [http EXCEPT
                      !.sessions = {e \in @ : e[1] # c[2]},
                      !.open = @ \ {c},
                      !.health = <<>>]
    /\ UNCHANGED <<handler, remote, traversal>>
    /\ UNCHANGED <<cursorVars, chunkVars, sortVars, columnVars, toolVars>>

\* GET /health: { status: "ok", sessions: sessions.size }
Health ==
    /\ http' = [http EXCEPT !.health = <<Cardinality(http.sessions)>>]
    /\ UNCHANGED <<handler, remote, traversal>>
    /\ UNCHANGED <<cursorVars, chunkVars, sortVars, columnVars, toolVars>>

\* POST /message up to the return of the request listener: 400 without a
\* sessionId (absent, or empty: 0 here), 404 when sessions.get finds
\* nothing, else listeners for the body are set that hold the transport.
PostLookup(sessionId) ==
    IF sessionId = <<>> \/ sessionId[1] = 0
    THEN [stage |-> "done", sessionId |-> sessionId, transport |-> 0, status |-> 400]
    ELSE IF ~MapHas(http.sessions, sessionId[1])
    THEN [stage |-> "done", sessionId |-> sessionId, transport |-> 0, status |-> 404]
    ELSE [stage |-> "receiving", sessionId |-> sessionId,
          transport |-> MapGet(http.sessions, sessionId[1]), status |-> 0]

PostMessage ==
    /\ http.post.stage # "receiving"
    /\ \E sessionId \in {<<>>, <<0>>} \cup {<<s>> : s \in SessionIds} :
          http' = [http EXCEPT !.post = PostLookup(sessionId), !.health = <<>>]
    /\ UNCHANGED <<handler, remote, traversal>>
    /\ UNCHANGED <<cursorVars, chunkVars, sortVars, columnVars, toolVars>>

\* req.on("end"): transport.handlePostMessage(req, res, body) on the
\* transport the listener holds; 500 when it throws, else the transport
\* answers (202).
PostBodyEnds ==
    /\ http.post.stage = "receiving"
    /\ \E status \in {202, 500} :
          http' = [http EXCEPT !.post = [@ EXCEPT !.stage = "dispatched",
                                                  !.status = status],
                               !.health = <<>>]
    /\ UNCHANGED <<handler, remote, traversal>>
    /\ UNCHANGED <<cursorVars, chunkVars, sortVars, columnVars, toolVars>>

HttpNext ==
    \/ SseConnect
    \/ ConnectionCloses
    \/ Health
    \/ PostMessage
    \/ PostBodyEnds

(***************************************************************************)
(* Specifications, one per component                                       *)
(***************************************************************************)
\* Each component is checked on its own: the other components stay in their
\* idle state.
InitCursor ==
    /\ emitted = NoCursor /\ passed = NoCall /\ decoded = NoResult
    /\ description = <<>> /\ maxChars = 1
    /\ chunkCall = NoChunkCall /\ received = <<>>
    /\ tasks = <<>> /\ sortMode = "api" /\ sorted = NoSort
    /\ remoteColumns = <<>> /\ columnCache = {} /\ columnNameToIdCache = {}
    /\ invocation = [c \in Calls |-> IdleCall] /\ lastOutcome = "none"
    /\ pageSize = 1 /\ activeColumnIds = <<>>
    /\ lastCall = NoToolCall /\ relisted = NoRelist
    /\ handler = NoHandler /\ remote = NoRemote
    /\ traversal = NoTraversal /\ http = NoHttp

SpecCursor == InitCursor /\ [][CursorNext]_vars

InitChunk ==
    /\ description \in Texts /\ maxChars \in 1..MaxWindow
    /\ chunkCall = NoChunkCall /\ received = <<>>
    /\ emitted = NoCursor /\ passed = NoCall /\ decoded = NoResult
    /\ tasks = <<>> /\ sortMode = "api" /\ sorted = NoSort
    /\ remoteColumns = <<>> /\ columnCache = {} /\ columnNameToIdCache = {}
    /\ invocation = [c \in Calls |-> IdleCall] /\ lastOutcome = "none"
    /\ pageSize = 1 /\ activeColumnIds = <<>>
    /\ lastCall = NoToolCall /\ relisted = NoRelist
    /\ handler = NoHandler /\ remote = NoRemote
    /\ traversal = NoTraversal /\ http = NoHttp

SpecChunk == InitChunk /\ [][ChunkNext]_vars

InitSort ==
    /\ tasks \in TaskLists /\ sortMode \in SortModes \cup {"api"}
    /\ sorted = NoSort
    /\ emitted = NoCursor /\ passed = NoCall /\ decoded = NoResult
    /\ description = <<>> /\ maxChars = 1
    /\ chunkCall = NoChunkCall /\ received = <<>>
    /\ remoteColumns = <<>> /\ columnCache = {} /\ columnNameToIdCache = {}
    /\ invocation = [c \in Calls |-> IdleCall] /\ lastOutcome = "none"
    /\ pageSize = 1 /\ activeColumnIds = <<>>
    /\ lastCall = NoToolCall /\ relisted = NoRelist
    /\ handler = NoHandler /\ remote = NoRemote
    /\ traversal = NoTraversal /\ http = NoHttp

SpecSort == InitSort /\ [][SortNext]_vars

InitColumns ==
    /\ remoteColumns \in ColumnLists
    /\ columnCache = {} /\ columnNameToIdCache = {}
    /\ invocation = [c \in Calls |-> IdleCall] /\ lastOutcome = "none"
    /\ emitted = NoCursor /\ passed = NoCall /\ decoded = NoResult
    /\ description = <<>> /\ maxChars = 1
    /\ chunkCall = NoChunkCall /\ received = <<>>
    /\ tasks = <<>> /\ sortMode = "api" /\ sorted = NoSort
    /\ pageSize = 1 /\ activeColumnIds = <<>>
    /\ lastCall = NoToolCall /\ relisted = NoRelist
    /\ handler = NoHandler /\ remote = NoRemote
    /\ traversal = NoTraversal /\ http = NoHttp

SpecColumnsSequential == InitColumns /\ [][ColumnNextSequential]_vars

SpecColumnsConcurrent == InitColumns /\ [][ColumnNextConcurrent]_vars

\* The board the tool specifications start from: with or without two
\* columns whose names differ in case only.
InitTools ==
    /\ pageSize \in 1..MaxPageSize
    /\ activeColumnIds \in {<<>>, <<{1, 2}>>}
    /\ lastCall = NoToolCall /\ relisted = NoRelist
    /\ remoteColumns \in
          { <<[id |-> 1, name |-> "To Do"], [id |-> 2, name |-> "Done"]>>,
            <<[id |-> 1, name |-> "To Do"], [id |-> 2, name |-> "Done"],
              [id |-> 3, name |-> "TO DO"]>> }
    /\ columnCache = {} /\ columnNameToIdCache = {}
    /\ invocation = [c \in Calls |-> IdleCall] /\ lastOutcome = "none"
    /\ emitted = NoCursor /\ passed = NoCall /\ decoded = NoResult
    /\ description = <<>> /\ maxChars = 1
    /\ chunkCall = NoChunkCall /\ received = <<>>
    /\ tasks = <<>> /\ sortMode = "api" /\ sorted = NoSort
    /\ handler = NoHandler /\ remote = NoRemote
    /\ traversal = NoTraversal /\ http = NoHttp

SpecTools == InitTools /\ [][ToolsNext]_vars

InitResort ==
    /\ pageSize = 1
    /\ activeColumnIds = <<>>
    /\ lastCall = NoToolCall /\ relisted = NoRelist
    /\ remoteColumns = <<[id |-> 1, name |-> "To Do"], [id |-> 2, name |-> "Done"]>>
    /\ columnCache = {} /\ columnNameToIdCache = {}
    /\ invocation = [c \in Calls |-> IdleCall] /\ lastOutcome = "none"
    /\ emitted = NoCursor /\ passed = NoCall /\ decoded = NoResult
    /\ description = <<>> /\ maxChars = 1
    /\ chunkCall = NoChunkCall /\ received = <<>>
    /\ tasks = <<>> /\ sortMode = "api" /\ sorted = NoSort
    /\ handler = NoHandler /\ remote = NoRemote
    /\ traversal = NoTraversal /\ http = NoHttp

SpecResort == InitResort /\ [][ResortNext]_vars

\* The worker and the admin server start without cached columns, the
\* remote side holding a task list of some pages and a task with some
\* comments.
InitHandler ==
    /\ handler = NoHandler /\ traversal = NoTraversal /\ http = NoHttp
    /\ remote \in [total_pages : 1..MaxTotalPages, comments : 0..MaxComments]
    /\ pageSize \in 1..MaxPageSize
    /\ activeColumnIds = <<>>
    /\ lastCall = NoToolCall /\ relisted = NoRelist
    /\ remoteColumns = <<[id |-> 1, name |-> "To Do"], [id |-> 2, name |-> "Done"]>>
    /\ columnCache = {} /\ columnNameToIdCache = {}
    /\ invocation = [c \in Calls |-> IdleCall] /\ lastOutcome = "none"
    /\ emitted = NoCursor /\ passed = NoCall /\ decoded = NoResult
    /\ description = <<>> /\ maxChars = 1
    /\ chunkCall = NoChunkCall /\ received = <<>>
    /\ tasks = <<>> /\ sortMode = "api" /\ sorted = NoSort

SpecHandler == InitHandler /\ [][HandlerNext]_vars

\* fetch settles: a request in flight is answered or fails in the end.
SpecHandlerLive == SpecHandler /\ WF_vars(RemoteResponds)

SpecAdmin == InitHandler /\ [][AdminNext]_vars

SpecTraversal == InitHandler /\ [][TraversalNext]_vars

\* The HTTP server right after listen(): no session.
InitHttp ==
    /\ http = NoHttp
    /\ handler = NoHandler /\ remote = NoRemote /\ traversal = NoTraversal
    /\ pageSize = 1 /\ activeColumnIds = <<>>
    /\ lastCall = NoToolCall /\ relisted = NoRelist
    /\ remoteColumns = <<>> /\ columnCache = {} /\ columnNameToIdCache = {}
    /\ invocation = [c \in Calls |-> IdleCall] /\ lastOutcome = "none"
    /\ emitted = NoCursor /\ passed = NoCall /\ decoded = NoResult
    /\ description = <<>> /\ maxChars = 1
    /\ chunkCall = NoChunkCall /\ received = <<>>
    /\ tasks = <<>> /\ sortMode = "api" /\ sorted = NoSort

SpecHttp == InitHttp /\ [][HttpNext]_vars

(***************************************************************************)
(* Claims                                                                  *)
(***************************************************************************)

\* C1: a cursor the server made with encodePageCursor from a page >= 1
\* decodes with decodePageCursor to exactly that page, and a cursor made with
\* encodeTextCursor from an offset >= 0 decodes with decodeTextCursor to
\* exactly that offset.
C1_CursorRoundTrip ==
    (passed.source = "server" /\ passed.tool = emitted.kind) =>
        /\ decoded.decode.called
        /\ ~decoded.decode.threw
        /\ decoded.decode.value =
              IF emitted.kind = "page" THEN [page |-> emitted.payload]
              ELSE [offset |-> emitted.payload]

C1_Witness ==
    /\ passed.source = "server" /\ passed.tool = "page" /\ emitted.kind = "page"
    /\ emitted.payload >= 10
    /\ decoded.decode.called /\ ~decoded.decode.threw
    /\ decoded.decode.value = [page |-> emitted.payload]

\* C2: reading a description from offset 0 and following next_cursor until
\* there is none takes at most ceil(length / maxChars) chunk calls (one for
\* the empty text); what the client has collected is at every moment the
\* text up to the next offset, and the whole text when next_cursor is absent.
C2_ChunkReconstruction ==
    chunkCall.chain =>
        /\ chunkCall.count = 1 \/ (chunkCall.count - 1) * maxChars < Len(description)
        /\ received = SubSeq(description, 1, Len(received))
        /\ chunkCall.nextCursor # <<>> => chunkCall.nextOffset = <<Len(received)>>
        /\ chunkCall.nextCursor = <<>> => received = description

C2_Witness ==
    /\ chunkCall.chain /\ chunkCall.outcome = "ok" /\ chunkCall.count = 3
    /\ Len(description) = 5 /\ maxChars = 2
    /\ chunkCall.nextCursor = <<>>
    /\ received = description

\* C3: for an offset within the text, the chunk is the characters from the
\* offset up to min(offset + maxChars, length); nextOffset is that end when
\* it is short of the length and null otherwise, that is null exactly when
\* offset + maxChars >= length; nextCursor is null exactly when nextOffset is.
C3_ChunkWindow ==
    (chunkCall.outcome = "ok" /\ chunkCall.offset <= Len(description)) =>
        /\ chunkCall.chunk =
              [i \in 1..(Min(chunkCall.offset + maxChars, Len(description))
                            - chunkCall.offset) |->
                  description[chunkCall.offset + i]]
        /\ chunkCall.nextOffset =
              IF Min(chunkCall.offset + maxChars, Len(description)) < Len(description)
              THEN <<Min(chunkCall.offset + maxChars, Len(description))>>
              ELSE <<>>
        /\ (chunkCall.nextOffset = <<>>)
              <=> (chunkCall.offset + maxChars >= Len(description))
        /\ (chunkCall.nextCursor = <<>>) <=> (chunkCall.nextOffset = <<>>)

C3_Witness ==
    /\ chunkCall.outcome = "ok" /\ ~chunkCall.chain
    /\ chunkCall.offset = 2 /\ maxChars = 2 /\ Len(description) = 5
    /\ chunkCall.chunk = <<description[3], description[4]>>
    /\ chunkCall.nextOffset = <<4>>
    /\ chunkCall.nextCursor # <<>>

\* C4: with calls that do not overlap, a call that starts after a call
\* returned issues no column fetch and returns the maps the cache holds; the
\* call that returns first issued exactly one fetch; all calls return the
\* same maps; and once the cache holds the project its maps never change,
\* whatever the remote side does to the column list.
C4_ColumnCacheReuse ==
    /\ [](\A c \in Calls :
            /\ (invocation[c].state # "idle" /\ invocation[c].prior = "returned") =>
                  /\ invocation[c].fetches = 0
                  /\ invocation[c].state = "returned"
                  /\ invocation[c].result = CachedMaps
            /\ (invocation[c].state = "returned" /\ invocation[c].prior # "returned") =>
                  invocation[c].fetches = 1
            /\ \A d \in Calls :
                  (invocation[c].state = "returned" /\ invocation[d].state = "returned")
                      => invocation[c].result = invocation[d].result)
    /\ [][MapHas(columnCache, EnvProjectId) =>
             /\ columnCache' = columnCache
             /\ columnNameToIdCache' = columnNameToIdCache]_vars

C4_Witness ==
    \E c \in Calls :
        /\ invocation[c].state = "returned" /\ invocation[c].prior = "returned"
        /\ invocation[c].fetches = 0
        /\ invocation[c].result.idToName # BuildIdToName(remoteColumns)
        /\ invocation[c].result.idToName # {}

\* C5: when the column fetch of a call fails, the call throws, both cache
\* maps stay as they were, without an entry for the project; and a call that
\* starts after a call threw issues a column fetch of its own.
C5_NoPoisonedCache ==
    /\ [][\A c \in Calls :
            (invocation[c].state = "awaiting" /\ invocation'[c].response = "failed") =>
                /\ invocation'[c].state = "threw"
                /\ columnCache' = columnCache
                /\ columnNameToIdCache' = columnNameToIdCache
                /\ ~MapHas(columnCache', EnvProjectId)
                /\ ~MapHas(columnNameToIdCache', EnvProjectId)]_vars
    /\ [](\A c \in Calls :
            (invocation[c].state # "idle" /\ invocation[c].prior = "threw") =>
                /\ ~invocation[c].cachedAtStart
                /\ invocation[c].fetches = 1)

C5_Witness ==
    \E c, d \in Calls :
        /\ invocation[c].state = "threw" /\ invocation[c].response = "failed"
        /\ invocation[d].state = "returned" /\ invocation[d].prior = "threw"
        /\ invocation[d].fetches = 1
        /\ columnCache = {<<EnvProjectId, invocation[d].result.idToName>>}

\* The key a mode sorts by, as an instant or a number.
PrimaryKey(task, mode) ==
    CASE mode \in {"updated_at_desc", "updated_at_asc"} -> DateParse(task.updated_at)
      [] mode \in {"created_at_desc", "created_at_asc"} -> DateParse(task.created_at)
      [] mode \in {"local_task_id_desc", "local_task_id_asc"} -> task.local_task_id

Ascending(mode) ==
    mode \in {"updated_at_asc", "created_at_asc", "local_task_id_asc"}

\* a may stand before b in the output of the mode.
InOrder(a, b, mode) ==
    IF Ascending(mode)
    THEN \/ PrimaryKey(a, mode) < PrimaryKey(b, mode)
         \/ PrimaryKey(a, mode) = PrimaryKey(b, mode) /\ a.id <= b.id
    ELSE \/ PrimaryKey(a, mode) > PrimaryKey(b, mode)
         \/ PrimaryKey(a, mode) = PrimaryKey(b, mode) /\ a.id >= b.id

DistinctIds(list) ==
    \A i, j \in 1..Len(list) : i # j => list[i].id # list[j].id

\* C6: in each of the six ordered modes, sorting the result of sortTasks
\* again in the same mode gives the same list, element for element.
C6_SortIdempotent ==
    (sorted.calls = 2 /\ sortMode \in SortModes) => sorted.twice = sorted.once

C6_Witness ==
    /\ sorted.calls = 2 /\ sortMode \in SortModes
    /\ Len(tasks) = 3 /\ sorted.once # tasks
    /\ \E i, j \in 1..3 : i # j /\ CompareTasks(tasks[i], tasks[j], sortMode) = 0
    /\ sorted.twice = sorted.once

\* C7: in each of the six ordered modes the output holds the tasks of the
\* input, ordered by the primary field in the mode's direction, tasks equal
\* in the primary field by id in the same direction; and the comparator
\* calls no two tasks with different ids equal.
C7_SortOrdered ==
    (sorted.calls >= 1 /\ sortMode \in SortModes) =>
        /\ \A i, j \in 1..Len(sorted.once) :
              i < j => InOrder(sorted.once[i], sorted.once[j], sortMode)
        /\ \A t \in Tasks :
              Cardinality({i \in 1..Len(sorted.once) : sorted.once[i] = t})
                  = Cardinality({i \in 1..Len(tasks) : tasks[i] = t})
        /\ \A i, j \in 1..Len(tasks) :
              tasks[i].id # tasks[j].id
                  => CompareTasks(tasks[i], tasks[j], sortMode) # 0

C7_Witness ==
    /\ sorted.calls >= 1 /\ sortMode = "updated_at_desc" /\ Len(sorted.once) = 3
    /\ sorted.once # tasks
    /\ DateParse(sorted.once[1].updated_at) > DateParse(sorted.once[2].updated_at)
    /\ sorted.once[2].updated_at # sorted.once[3].updated_at
    /\ DateParse(sorted.once[2].updated_at) = DateParse(sorted.once[3].updated_at)
    /\ sorted.once[2].id > sorted.once[3].id

\* C8: in each of the six ordered modes, a list of tasks with pairwise
\* different ids and the same list with two neighbours exchanged sort to the
\* same result (exchanges of neighbours generate every permutation).
C8_SortInputOrderIndependent ==
    (sorted.swapped # 0 /\ sortMode \in SortModes /\ DistinctIds(tasks)) =>
        sorted.other = sorted.once

C8_Witness ==
    /\ sorted.swapped # 0 /\ sortMode \in SortModes /\ DistinctIds(tasks)
    /\ Len(tasks) = 3
    /\ PrimaryKey(tasks[sorted.swapped], sortMode)
          = PrimaryKey(tasks[sorted.swapped + 1], sortMode)
    /\ sorted.other = sorted.once

\* C9: for every cursor a tool accepts, decodePageCursor throws the invalid
\* cursor error or returns a page > 0, decodeTextCursor throws the invalid
\* cursor error or returns an offset >= 0, and the page a list tool goes on
\* with is >= 1.
C9_DecodedShape ==
    /\ (passed.tool = "page" /\ decoded.decode.called) =>
          IF decoded.decode.threw THEN decoded.decode.value = InvalidPageCursor
          ELSE decoded.decode.value.page > 0
    /\ (passed.tool = "text" /\ decoded.decode.called) =>
          IF decoded.decode.threw THEN decoded.decode.value = InvalidTextCursor
          ELSE decoded.decode.value.offset >= 0
    /\ (passed.tool = "page" /\ ~decoded.used.threw) => decoded.used.value >= 1

\* C10: a cursor made by encodePageCursor makes decodeTextCursor throw the
\* invalid cursor error, and a cursor made by encodeTextCursor makes
\* decodePageCursor throw it.
C10_CursorSpacesDisjoint ==
    (passed.source = "server" /\ passed.tool # emitted.kind) =>
        /\ decoded.decode.called
        /\ decoded.decode.threw
        /\ decoded.decode.value =
              IF passed.tool = "page" THEN InvalidPageCursor ELSE InvalidTextCursor
        /\ decoded.used.threw

C10_Witness ==
    /\ passed.source = "server" /\ passed.tool = "page" /\ emitted.kind = "text"
    /\ emitted.payload >= 1
    /\ decoded.decode.called /\ decoded.decode.threw
    /\ decoded.decode.value = InvalidPageCursor
\* The number a string of decimal digits denotes.
RECURSIVE DecimalValue(_)
DecimalValue(s) ==
    IF s = <<>> THEN 0
    ELSE 10 * DecimalValue(SubSeq(s, 1, Len(s) - 1)) + (s[Len(s)] - 48)

OnlyDigits(s) == s # <<>> /\ \A i \in 1..Len(s) : s[i] \in 48..57

\* The number a cursor given as a number or as digits stands for.
BareInteger(c) == IF c.type = "number" THEN c.n ELSE DecimalValue(c.s)

\* C11: a cursor that is a number, or a string of digits only, is decoded
\* to that number: to {page: n} by decodePageCursor and to {offset: n} by
\* decodeTextCursor, leading zeros and 0 included.
C11_BareIntegerShorthand ==
    (/\ decoded.decode.called
     /\ \/ passed.cursor.type = "number"
        \/ passed.cursor.type = "string" /\ OnlyDigits(passed.cursor.s)) =>
        /\ ~decoded.decode.threw
        /\ decoded.decode.value =
              IF passed.tool = "page" THEN [page |-> BareInteger(passed.cursor)]
              ELSE [offset |-> BareInteger(passed.cursor)]
        /\ decoded.used = Returned(BareInteger(passed.cursor))

C11_Witness ==
    /\ passed.tool = "text" /\ passed.cursor = StringCursor(<<51, 55>>)
    /\ decoded.decode.called /\ ~decoded.decode.threw
    /\ decoded.decode.value = [offset |-> 37]

\* The tokens the server makes for the payloads of the shape a tool expects.
ExpectedTokens(tool) ==
    IF tool = "page" THEN {encodePageCursor([page |-> p]) : p \in 1..MaxPage}
    ELSE {encodeTextCursor([offset |-> o]) : o \in 0..MaxOffset}

TasksListed == lastCall.tool = "tasks_list" /\ ~lastCall.answer.isError

\* The place of a task id in the remote page of the last call.
RemotePlace(id) ==
    CHOOSE i \in 1..Len(lastCall.fetched.tasks) : lastCall.fetched.tasks[i].id = id

\* No filter of the last tasks_list call can drop a task.
Unfiltered ==
    /\ ~TruthyString(lastCall.args.status)
    /\ ~TruthyString(lastCall.args.priority)
    /\ ~TruthyString(lastCall.args.tag)
    /\ activeColumnIds = <<>> \/ ScopeOf(lastCall.args) \in {"feedback", "archived"}

SeqRange(s) == {s[i] : i \in 1..Len(s)}

\* C13: with sort "api" the listed tasks are tasks of the remote page in
\* the order the remote page has them, and when no filter applies they are
\* the first pageSize tasks of the remote page.
C13_ApiOrderKept ==
    (TasksListed /\ lastCall.args.sort = "api") =>
        /\ \A i \in 1..Len(lastCall.answer.items) :
              \E k \in 1..Len(lastCall.fetched.tasks) :
                  lastCall.fetched.tasks[k].id = lastCall.answer.items[i]
        /\ \A i, j \in 1..Len(lastCall.answer.items) :
              i < j => RemotePlace(lastCall.answer.items[i])
                          < RemotePlace(lastCall.answer.items[j])
        /\ Unfiltered =>
              lastCall.answer.items =
                  [i \in 1..Min(pageSize, Len(lastCall.fetched.tasks)) |->
                      lastCall.fetched.tasks[i].id]

C13_Witness ==
    /\ TasksListed /\ lastCall.args.sort = "api" /\ pageSize = 2
    /\ TaskIds(lastCall.fetched.tasks) = <<21, 22>>
    /\ lastCall.answer.items = <<21, 22>>
    /\ sortTasks(lastCall.fetched.tasks, "updated_at_desc") # lastCall.fetched.tasks

\* C14: the same tasks_list request, answered from the same remote page
\* under two sort modes, lists the same set of tasks.
C14_SortKeepsItems ==
    relisted.sort # "none" =>
        SeqRange(relisted.items) = SeqRange(lastCall.answer.items)

\* C15: a tasks_list or comments_list answer lists at most pageSize items.
C15_PageSizeCeiling ==
    (lastCall.tool \in {"tasks_list", "comments_list"} /\ ~lastCall.answer.isError) =>
        Len(lastCall.answer.items) <= pageSize

C15_Witness ==
    /\ TasksListed /\ Unfiltered
    /\ Len(lastCall.fetched.tasks) > pageSize
    /\ Len(lastCall.answer.items) = pageSize

\* The remote answer of the last call carries no total_pages.
NoTotalPages ==
    ~lastCall.fetched.meta.has \/ lastCall.fetched.meta.total_pages = <<>>

\* C16 as stated: without total_pages in the remote answer, tasks_list
\* prints none of next_page, next_cursor, prev_page, prev_cursor.
C16_NavOnlyWithTotalPages ==
    (TasksListed /\ NoTotalPages) =>
        /\ lastCall.answer.next_page = <<>> /\ lastCall.answer.next_cursor = <<>>
        /\ lastCall.answer.prev_page = <<>> /\ lastCall.answer.prev_cursor = <<>>

\* C16 amended: without total_pages in the remote answer, tasks_list prints
\* neither next_page nor next_cursor; prev_page and prev_cursor are printed
\* exactly when the current page is above 1, with or without total_pages,
\* and name the page before it.
C16_NextOnlyWithTotalPages ==
    TasksListed =>
        /\ NoTotalPages =>
              lastCall.answer.next_page = <<>> /\ lastCall.answer.next_cursor = <<>>
        /\ lastCall.answer.prev_page =
              IF lastCall.answer.page > 1 THEN <<lastCall.answer.page - 1>> ELSE <<>>
        /\ (lastCall.answer.prev_cursor = <<>>) <=> (lastCall.answer.prev_page = <<>>)

C16_Witness ==
    /\ TasksListed /\ NoTotalPages
    /\ lastCall.answer.page = 2
    /\ lastCall.answer.prev_page = <<1>> /\ lastCall.answer.prev_cursor # <<>>
    /\ lastCall.answer.next_page = <<>> /\ lastCall.answer.next_cursor = <<>>

\* The number of pages the list of the last call has: for comments_list all
\* comments are at hand, for tasks_list the remote side reports it.
PagesKnown ==
    lastCall.tool = "comments_list" \/ (lastCall.tool = "tasks_list" /\ ~NoTotalPages)

TotalPagesOfCall ==
    IF lastCall.tool = "comments_list"
    THEN (lastCall.fetched.comments + pageSize - 1) \div pageSize
    ELSE lastCall.fetched.meta.total_pages[1]

PageExists(p) == p >= 1 /\ (PagesKnown => p <= TotalPagesOfCall)

\* The page a printed cursor decodes to is the page printed with it.
CursorNames(cursor, page) ==
    /\ (cursor = <<>>) <=> (page = <<>>)
    /\ cursor # <<>> =>
          decodePageCursor(StringCursor(cursor[1])) = Returned([page |-> page[1]])

\* C17: in a tasks_list or comments_list answer, next_page and prev_page
\* are printed only for pages that exist (within 1..total pages), and each
\* cursor is printed exactly with its page and decodes to it.
C17_NavOnlyToExistingPages ==
    (lastCall.tool \in {"tasks_list", "comments_list"} /\ ~lastCall.answer.isError) =>
        /\ lastCall.answer.next_page # <<>> => PageExists(lastCall.answer.next_page[1])
        /\ lastCall.answer.prev_page # <<>> => PageExists(lastCall.answer.prev_page[1])
        /\ CursorNames(lastCall.answer.next_cursor, lastCall.answer.next_page)
        /\ CursorNames(lastCall.answer.prev_cursor, lastCall.answer.prev_page)

\* The column maps the last call worked with.
CachedNameToId == MapGet(columnNameToIdCache, EnvProjectId)
CachedIdToName == MapGet(columnCache, EnvProjectId)

StatusIsColumn == MapHas(CachedNameToId, ToLowerCase(lastCall.args.status[1]))

LabelMatches(t) ==
    t.status # <<>> /\ ToLowerCase(t.status[1]) = ToLowerCase(lastCall.args.status[1])

\* C18: a tasks_list call whose status names no known column and matches
\* no task's status label is answered with the unknown-column error.
C18_UnknownStatusIsError ==
    (/\ lastCall.tool = "tasks_list"
     /\ lastCall.answer.message \notin {"ZodError", InvalidPageCursor, RemoteFailure}
     /\ TruthyString(lastCall.args.status)
     /\ ~StatusIsColumn
     /\ \A i \in 1..Len(lastCall.fetched.tasks) :
            ~LabelMatches(lastCall.fetched.tasks[i])) =>
        lastCall.answer.isError

\* C19: task_move_status with a column id the cached map does not hold is
\* answered with the error result that points to columns_list, no task
\* update is sent, and the server goes on to the next request.
C19_UnknownColumnNotMoved ==
    (/\ lastCall.tool = "task_move_status"
     /\ lastCall.args.to_column_id > 0
     /\ lastCall.fetched.ok
     /\ MapHas(columnCache, EnvProjectId)
     /\ ~MapHas(CachedIdToName, lastCall.args.to_column_id)) =>
        /\ lastCall.answer.isError
        /\ lastCall.answer.message = UnknownColumnId
        /\ lastCall.answer.updates = <<>>
        /\ ENABLED Delivered

C19_Witness ==
    /\ lastCall.tool = "task_move_status" /\ lastCall.args.to_column_id = 3
    /\ lastCall.fetched.ok /\ lastCall.fetched.updateOk
    /\ MapHas(columnCache, EnvProjectId)
    /\ MapKeys(CachedIdToName) = {1, 2}
    /\ lastCall.answer.isError /\ lastCall.answer.updates = <<>>

\* The fetched tasks the status argument of the last call selects.
StatusSelected ==
    { t \in SeqRange(lastCall.fetched.tasks) :
        IF StatusIsColumn
        THEN t.status_id = <<MapGet(CachedNameToId, ToLowerCase(lastCall.args.status[1]))>>
        ELSE LabelMatches(t) }

\* C20: with a status argument, tasks_list lists only fetched tasks whose
\* status_id is the id the lower-cased name maps to when the name is a
\* known column, and only tasks whose status label equals the argument in
\* lower case otherwise; when no other filter applies these are all such
\* tasks, up to the page size.
C20_StatusFilter ==
    (TasksListed /\ TruthyString(lastCall.args.status)) =>
        /\ SeqRange(lastCall.answer.items) \subseteq {t.id : t \in StatusSelected}
        /\ (/\ ~TruthyString(lastCall.args.priority)
            /\ ~TruthyString(lastCall.args.tag)
            /\ activeColumnIds = <<>>) =>
              Cardinality(SeqRange(lastCall.answer.items))
                  = Min(pageSize, Cardinality(StatusSelected))

C20_Witness ==
    /\ TasksListed /\ lastCall.args.status = <<"to do">>
    /\ MapKeys(CachedNameToId) = {"to do", "done"}
    /\ TaskIds(lastCall.fetched.tasks) = <<22, 21>>
    /\ lastCall.answer.items = <<21>>

\* The maps getColumnMappings builds from a column list.
MapsOf(columns) ==
    [idToName |-> BuildIdToName(columns), nameToId |-> BuildNameToId(columns)]

RECURSIVE FetchesUpTo(_)
FetchesUpTo(c) == IF c = 0 THEN 0 ELSE invocation[c].fetches + FetchesUpTo(c - 1)

\* The invocations that started while the cache did not hold the project.
StartedUncached ==
    {c \in Calls : invocation[c].state # "idle" /\ ~invocation[c].cachedAtStart}

LastWindow == textChunk(description, chunkCall.offset, maxChars)

\* C24: textChunk clamps the offset to [0, length(text)]: for every offset,
\* also one beyond the end of the text, the window it returns starts at an
\* offset within [0, length(text)]; its chunk is empty and its nextOffset
\* null when the offset is at or beyond the end.
C24_OffsetClamped ==
    chunkCall.outcome = "ok" =>
        /\ LastWindow.chunk = chunkCall.chunk
        /\ LastWindow.offset \in 0..Len(description)
        /\ chunkCall.offset >= Len(description) =>
              (LastWindow.chunk = <<>> /\ LastWindow.nextOffset = <<>>)

\* C29: the id-to-name cache holds a project exactly when the name-to-id
\* cache does, and for every cached column id c the lower-cased name of c
\* maps back to c, also when two columns differ in letter case only.
C29_MapsConsistent ==
    /\ MapKeys(columnCache) = MapKeys(columnNameToIdCache)
    /\ \A p \in MapKeys(columnCache) :
          \A c \in MapKeys(MapGet(columnCache, p)) :
              /\ MapHas(MapGet(columnNameToIdCache, p),
                        ToLowerCase(MapGet(MapGet(columnCache, p), c)))
              /\ MapGet(MapGet(columnNameToIdCache, p),
                        ToLowerCase(MapGet(MapGet(columnCache, p), c))) = c

\* The tools that take a cursor, and what resolving the cursor of the call
\* in progress gives.
CursorOutcome ==
    IF handler.tool \in {"tasks_list", "comments_list"}
    THEN ResolvePage(handler.args.cursor, handler.args.page).used
    ELSE ResolveOffset(handler.args.cursor).used

CursorRejected ==
    /\ handler.tool \in {"tasks_list", "comments_list", "task_description_more",
                          "comment_text_more"}
    /\ ArgsOk(handler.tool, handler.args)
    /\ CursorOutcome.threw

Responded == handler.outcome = "responded"

\* C22: a tool invocation of the project worker ends in one response, a
\* success payload or an error result: no exception leaves the handler;
\* arguments the schema rejects, a cursor that does not decode and a failed
\* remote request each end the invocation with isError true; after the
\* response nothing of the invocation is left running, the response can be
\* sent and the next invocation taken; and, remote requests settling, every
\* invocation reaches its response.
C22_ErrorBoundary ==
    /\ [](/\ handler.outcome \in {"none", "responded"}
           /\ handler.answer.isError \in BOOLEAN
           /\ (Responded =>
                 /\ ~handler.awaiting
                 /\ ENABLED ResponseSent
                 /\ (\/ ~ArgsOk(handler.tool, handler.args)
                     \/ handler.failed
                     \/ CursorRejected)
                       => handler.answer.isError
                 /\ ~ArgsOk(handler.tool, handler.args)
                       => handler.answer = ErrorAnswer("ZodError"))
           /\ (handler.tool = "none" => ENABLED CallTool))
    /\ [][Responded => handler' = NoHandler]_vars
    /\ ((handler.tool # "none") ~> Responded)

\* A call with a malformed cursor whose task read failed, answered with an
\* error result, and a call the schema rejects.
C22_Witness ==
    /\ handler.tool = "task_description_more"
    /\ CursorRejected /\ handler.failed
    /\ Responded /\ handler.answer = ErrorAnswer(RemoteFailure)

\* The requests of the run in progress that went to a task-list endpoint.
ListRequests == SelectSeq(handler.requests, LAMBDA r : r.endpoint \in Scopes)

C28_RejectedBeforeRemote ==
    (CursorRejected /\ handler.tool # "none") =>
        /\ handler.requests = <<>>
        /\ Responded
        /\ handler.answer = ErrorAnswer(CursorOutcome.value)

Traversed(tool) ==
    traversal.tool = tool /\ Responded /\ ~handler.answer.isError

\* C26: against a remote task list of T >= 1 pages that answers each
\* request with the page asked for, tasks_list started at page 1 and called
\* again with each next_cursor asks the remote side for the pages 1, 2, ...
\* in this order, each once; the response for page T, and no response before
\* it, is without next_cursor, so the traversal ends after T calls; a call
\* with the `cursor` of a response asks for the page of that response again.
C26_PageTraversal ==
    Traversed("tasks_list") =>
        IF ~traversal.again THEN
            /\ Seen.pages = [i \in 1..traversal.calls |-> i]
            /\ handler.answer.page = traversal.calls
            /\ traversal.calls <= remote.total_pages
            /\ (handler.answer.next_cursor = <<>>)
                  <=> (traversal.calls = remote.total_pages)
        ELSE
            /\ Seen.pages = [i \in 1..(traversal.calls - 1) |-> i]
                                \o <<traversal.calls - 1>>
            /\ handler.answer.page = traversal.calls - 1

\* Three pages read in three calls, the third response without next_cursor.
C26_Witness ==
    /\ Traversed("tasks_list") /\ ~traversal.again
    /\ remote.total_pages = 3 /\ traversal.calls = 3
    /\ Seen.pages = <<1, 2, 3>>
    /\ handler.answer.next_cursor = <<>>

\* A page read a second time by passing `cursor` back.
C26_WitnessAgain ==
    /\ Traversed("tasks_list") /\ traversal.again
    /\ Seen.pages = <<1, 2, 2>>

\* C27: for a task with n comments, comments_list started at page 1 and
\* called again with each next_cursor lists the comments 1..n in the remote
\* order, each once, in slices of at most pageSize; a response is without
\* next_cursor exactly when all n have been listed, which is after
\* ceil(n / pageSize) calls, and after one call when n = 0.
C27_CommentTraversal ==
    (Traversed("comments_list") /\ ~traversal.again) =>
        /\ Seen.items = [i \in 1..Min(remote.comments, traversal.calls * pageSize) |-> i]
        /\ \A k \in 1..Len(Seen.slices) : Seen.slices[k] <= pageSize
        /\ (handler.answer.next_cursor = <<>>) <=> (Len(Seen.items) = remote.comments)
        /\ handler.answer.next_cursor = <<>> =>
              traversal.calls =
                  Max(1, (remote.comments + pageSize - 1) \div pageSize)

\* Three comments read in slices of two and one.
C27_Witness ==
    /\ Traversed("comments_list") /\ ~traversal.again
    /\ remote.comments = 3 /\ pageSize = 2 /\ traversal.calls = 2
    /\ Seen.items = <<1, 2, 3>> /\ Seen.slices = <<2, 1>>
    /\ handler.answer.next_cursor = <<>>

\* The session table holds exactly the open SSE connections, each under
\* its own id.
SessionsAreOpenConnections ==
    /\ http.sessions = {<<c[2], c[1]>> : c \in http.open}
    /\ \A c, d \in http.open : (c[1] = d[1]) <=> (c[2] = d[2])
    /\ Cardinality(http.sessions) = Cardinality(http.open)

\* A step in which the request listener of POST /message runs.
PostLookedUp ==
    /\ http.post.stage # "receiving"
    /\ http'.post.stage # "none"
    /\ http'.health = <<>>
    /\ http'.sessions = http.sessions

\* A step in which the body of a POST /message ends.
PostDispatched ==
    /\ http.post.stage = "receiving"
    /\ http'.post.stage = "dispatched"

\* C25: the sessions map holds exactly one entry per SSE connection that
\* is open, each under a unique session id, and /health reports their
\* number; a POST /message without sessionId gets 400; one whose sessionId
\* names no open session gets 404 and reaches no transport; and a POST is
\* dispatched only to the transport of the open session its sessionId
\* names.
C25_SessionTable ==
    /\ [](/\ SessionsAreOpenConnections
          /\ (http.health # <<>> => http.health[1] = Cardinality(http.open))
          /\ (http.post.status \in {400, 404} => http.post.transport = 0))
    /\ [][PostLookedUp =>
            /\ (http'.post.status = 400 <=>
                   http'.post.sessionId \in {<<>>, <<0>>})
            /\ (http'.post.status = 404 <=>
                   /\ http'.post.sessionId \notin {<<>>, <<0>>}
                   /\ \A c \in http.open : c[2] # http'.post.sessionId[1])]_vars
    /\ [][PostDispatched =>
            <<http'.post.transport, http'.post.sessionId[1]>> \in http.open]_vars

\* The same with the dispatch judged when the request arrived.
SessionTableAtLookup ==
    /\ [](/\ SessionsAreOpenConnections
          /\ (http.health # <<>> => http.health[1] = Cardinality(http.open))
          /\ (http.post.status \in {400, 404} => http.post.transport = 0))
    /\ [][PostLookedUp =>
            /\ (http'.post.status = 400 <=>
                   http'.post.sessionId \in {<<>>, <<0>>})
            /\ (http'.post.status = 404 <=>
                   /\ http'.post.sessionId \notin {<<>>, <<0>>}
                   /\ \A c \in http.open : c[2] # http'.post.sessionId[1])
            /\ (http'.post.stage = "receiving" =>
                   <<http'.post.transport, http'.post.sessionId[1]>> \in http.open)]_vars
    /\ [][PostDispatched => http'.post.transport = http.post.transport]_vars
====
